---- MODULE Spec2Model ----
(***************************************************************************)
(* Sliding-window rate limiter of @codex/shared (middleware/rateLimit.ts)  *)
(* with the client-IP resolver it keys on (utils/ip.ts), and the metrics   *)
(* store of middleware/metrics.ts.                                         *)
(*                                                                         *)
(* Strings are sequences of one-character strings, so that startsWith,     *)
(* split, slice, join and trim are computed as the code computes them.     *)
(* Time is Date.now() in milliseconds, counted from the creation of the    *)
(* store (only differences of timestamps are ever used by the code).       *)
(***************************************************************************)
EXTENDS Integers, Sequences, FiniteSets, TLC

(***************************************************************************)
(* Bounds of the model                                                     *)
(***************************************************************************)
NumReqs == 2        \* request slots that can be in flight at the same time
MaxSteps == 4       \* evaluations, clock steps and sweeps in one behaviour of Spec
RetryEvals == 4     \* rateLimiter evaluations in one behaviour of SpecRetry
RetryFine == 2      \* sub-minute clock steps in one behaviour of SpecRetry
RetrySweeps == 1    \* reaper sweeps in one behaviour of SpecRetry
ReaperEvals == 3    \* rateLimiter evaluations in one behaviour of SpecReaper
ReaperFine == 1     \* sub-minute clock steps in one behaviour of SpecReaper
ReaperSweeps == 5   \* reaper sweeps in one behaviour of SpecReaper
SweepEvals == 1     \* rateLimiter evaluations in one behaviour of SpecSweep
SweepFine == 1      \* sub-minute clock steps in one behaviour of SpecSweep
SweepSweeps == 5    \* reaper sweeps in one behaviour of SpecSweep
RingCap == 2        \* largest maxMetrics of a store of SpecMetrics
MaxRecords == 3     \* requests through metricsLogger in one behaviour of SpecMetrics
MaxResets == 1      \* resetMetrics calls in one behaviour of SpecMetrics
TotalsRecords == 3  \* requests through metricsLogger in one behaviour of SpecTotals
TotalsResets == 1   \* resetMetrics calls in one behaviour of SpecTotals
CallerRecords == 2  \* requests through metricsLogger in one behaviour of SpecCallers
CallerResets == 1   \* resetMetrics calls in one behaviour of SpecCallers
RouteRecords == 1   \* requests through metricsLogger in one behaviour of SpecRoutes
RouteResets == 1    \* resetMetrics calls in one behaviour of SpecRoutes
QueryRecords == 2   \* requests through metricsLogger in one behaviour of SpecQueries
QueryResets == 1    \* resetMetrics calls in one behaviour of SpecQueries
QueryLimit == 3     \* largest limit passed to a query function in SpecQueries
ReadRecords == 2    \* requests through metricsLogger in one behaviour of SpecReads
ReadResets == 1     \* resetMetrics calls in one behaviour of SpecReads
CapRecords == 2      \* requests through metricsLogger in one behaviour of SpecCap
CapResets == 1       \* resetMetrics calls in one behaviour of SpecCap
ShareEvals == 4      \* rateLimiter evaluations in one behaviour of SpecShare
ShareFine == 1       \* sub-minute clock steps in one behaviour of SpecShare
ShareSweeps == 1     \* reaper sweeps in one behaviour of SpecShare
TransSteps == 7     \* steps of all kinds in one behaviour of SpecTransparent
TransEvals == 2     \* rateLimiter evaluations in one behaviour of SpecTransparent
TransFine == 1      \* sub-minute clock steps in one behaviour of SpecTransparent
TransSweeps == 5    \* reaper sweeps in one behaviour of SpecTransparent
StatusRecords == 2  \* requests through metricsLogger in one behaviour of SpecStatus
StatusResets == 1   \* resetMetrics calls in one behaviour of SpecStatus
LatencyRecords == 8 \* requests through metricsLogger in one behaviour of SpecLatency
LatencyResets == 1  \* resetMetrics calls in one behaviour of SpecLatency

(***************************************************************************)
(* Program constants                                                       *)
(***************************************************************************)
MsPerSecond == 1000             \* config.window * 1000, Math.ceil(... / 1000)
RetentionMs_Minute == 60 * 1000  \* a reaper that keeps one minute
RetentionMs == 5 * 60 * 1000    \* now - t < 5 * 60 * 1000
CleanupIntervalMs == 60 * 1000  \* setInterval(..., 60 * 1000)
KeySegments == 3                \* path.split('/').slice(0, 3)
TooManyRequests == 429
Pending == 0                    \* no status written by the limiter

Reqs == 1..NumReqs
FineSteps == {500, 1000}

(***************************************************************************)
(* String helpers (JavaScript semantics)                                   *)
(***************************************************************************)
Min2(a, b) == IF a <= b THEN a ELSE b

\* String.prototype.startsWith
StartsWith(s, prefix) ==
    /\ Len(prefix) <= Len(s)
    /\ SubSeq(s, 1, Len(prefix)) = prefix

\* String.prototype.split(sep) for a one-character separator
Split(s, sep) ==
    LET RECURSIVE go(_, _, _)
        go(i, cur, acc) ==
            IF i > Len(s) THEN Append(acc, cur)
            ELSE IF s[i] = sep THEN go(i + 1, <<>>, Append(acc, cur))
            ELSE go(i + 1, Append(cur, s[i]), acc)
    IN go(1, <<>>, <<>>)

\* Array.prototype.slice(0, n)
Slice0(parts, n) == SubSeq(parts, 1, Min2(n, Len(parts)))

\* Array.prototype.join(sep)
Join(parts, sep) ==
    LET RECURSIVE go(_, _)
        go(i, acc) ==
            IF i > Len(parts) THEN acc
            ELSE go(i + 1, (IF i = 1 THEN acc ELSE Append(acc, sep)) \o parts[i])
    IN go(1, <<>>)

\* String.prototype.trim (blanks only)
Trim(s) ==
    LET RECURSIVE left(_)
        left(i) == IF i <= Len(s) /\ s[i] = " " THEN left(i + 1) ELSE i
        RECURSIVE right(_)
        right(j) == IF j >= 1 /\ s[j] = " " THEN right(j - 1) ELSE j
    IN SubSeq(s, left(1), right(Len(s)))

(***************************************************************************)
(* utils/ip.ts                                                             *)
(***************************************************************************)
Unknown == <<"u", "n", "k", "n", "o", "w", "n">>

\* a resolution that takes the first entry of X-Forwarded-For and knows one
\* sentinel only
getClientIP_FirstEntry(c, dev) ==
    IF c.cf # <<>> THEN c.cf
    ELSE IF c.xff # <<>> THEN Trim(Split(c.xff, ",")[1])
    ELSE IF c.real # <<>> THEN c.real
    ELSE Unknown

\* A header that is absent and a header that is the empty string are both
\* falsy; both are the empty sequence here.
getClientIP(c, dev) ==
    IF c.cf # <<>> THEN c.cf
    ELSE IF c.xff # <<>>
         THEN LET ips == Split(c.xff, ",")
              IN Trim(ips[Len(ips)])
    ELSE IF c.real # <<>> THEN c.real
    ELSE IF dev THEN Unknown ELSE <<>>

(***************************************************************************)
(* utils/ip.ts: internal callers                                           *)
(***************************************************************************)
Digits == {"0", "1", "2", "3", "4", "5", "6", "7", "8", "9"}
DigitChars == <<"0", "1", "2", "3", "4", "5", "6", "7", "8", "9">>
Localhost == <<"l", "o", "c", "a", "l", "h", "o", "s", "t">>
Loopback4 == <<"1", "2", "7", ".", "0", ".", "0", ".", "1">>
Loopback6 == <<":", ":", "1">>
DockerNet == <<"1", "7", "2">>

\* /^\d+$/
AllDigits(s) == s # <<>> /\ \A i \in 1..Len(s) : s[i] \in Digits

\* INTERNAL_IP_PATTERNS.some(pattern => pattern.test(ip)):
\* /^172\.\d+\.\d+\.\d+$/, /^127\.0\.0\.1$/, /^localhost$/, /^::1$/
MatchesInternalPattern(ip) ==
    \/ LET parts == Split(ip, ".")
       IN /\ Len(parts) = 4
          /\ parts[1] = DockerNet
          /\ \A i \in 2..4 : AllDigits(parts[i])
    \/ ip = Loopback4
    \/ ip = Localhost
    \/ ip = Loopback6

\* a check that trusts 'unknown' in production as well
isInternalRequest_TrustsUnknown(ip, dev) ==
    IF ip = <<>> THEN FALSE
    ELSE IF ip = Unknown THEN TRUE
    ELSE MatchesInternalPattern(ip)

isInternalRequest(ip, dev) ==
    IF ip = <<>> THEN FALSE
    ELSE IF dev /\ ip = Unknown THEN TRUE
    ELSE MatchesInternalPattern(ip)

(***************************************************************************)
(* JavaScript numbers: IEEE 754 binary64, for the non-negative finite      *)
(* values the average latency takes. A number is m * 2^e with m = 0 or     *)
(* 2^52 <= m < 2^53; m is a natural number written in limbs of 12 bits,    *)
(* least significant first. Results are rounded to nearest, ties to even.  *)
(***************************************************************************)
LimbBits == 12
LimbBase == 4096
MantissaBits == 53
GuardBits == 24         \* extra quotient bits kept by a division, for rounding

\* a natural number in limbs, without leading zero limbs
Norm(a) ==
    LET RECURSIVE top(_)
        top(n) == IF n > 0 /\ a[n] = 0 THEN top(n - 1) ELSE n
    IN SubSeq(a, 1, top(Len(a)))

BigFromNat(n) ==
    LET RECURSIVE go(_, _)
        go(x, acc) == IF x = 0 THEN acc
                      ELSE go(x \div LimbBase, Append(acc, x % LimbBase))
    IN go(n, <<>>)

\* a * k for a small natural k (k < 2^18)
BigMulSmall(a, k) ==
    LET RECURSIVE go(_, _, _)
        go(i, carry, acc) ==
            IF i > Len(a)
            THEN acc \o BigFromNat(carry)
            ELSE LET x == a[i] * k + carry
                 IN go(i + 1, x \div LimbBase, Append(acc, x % LimbBase))
    IN Norm(go(1, 0, <<>>))

BigAdd(a, b) ==
    LET n == IF Len(a) >= Len(b) THEN Len(a) ELSE Len(b)
        limb(x, i) == IF i <= Len(x) THEN x[i] ELSE 0
        RECURSIVE go(_, _, _)
        go(i, carry, acc) ==
            IF i > n THEN acc \o BigFromNat(carry)
            ELSE LET x == limb(a, i) + limb(b, i) + carry
                 IN go(i + 1, x \div LimbBase, Append(acc, x % LimbBase))
    IN Norm(go(1, 0, <<>>))

\* quotient and remainder of a by a small natural k > 0 (k < 2^18)
BigDivSmall(a, k) ==
    LET RECURSIVE go(_, _, _)
        go(i, rem, acc) ==
            IF i = 0 THEN [q |-> Norm(acc), r |-> rem]
            ELSE LET x == rem * LimbBase + a[i]
                 IN go(i - 1, x % k, <<x \div k>> \o acc)
    IN go(Len(a), 0, <<>>)

\* the number of bits of a: 0 for 0
BitLength(a) ==
    LET RECURSIVE bits(_)
        bits(x) == IF x = 0 THEN 0 ELSE 1 + bits(x \div 2)
    IN IF a = <<>> THEN 0 ELSE (Len(a) - 1) * LimbBits + bits(a[Len(a)])

\* a * 2^s
ShiftLeft(a, s) ==
    IF a = <<>> THEN <<>>
    ELSE [i \in 1..(s \div LimbBits) |-> 0] \o BigMulSmall(a, 2 ^ (s % LimbBits))

\* floor(a / 2^s)
ShiftRight(a, s) ==
    LET whole == s \div LimbBits
    IN IF whole >= Len(a) THEN <<>>
       ELSE BigDivSmall(SubSeq(a, whole + 1, Len(a)), 2 ^ (s % LimbBits)).q

IsOdd(a) == a # <<>> /\ a[1] % 2 = 1

ZeroNumber == [m |-> <<>>, e |-> 0]

\* the number nearest to n * 2^e, or to a value just above it when sticky
\* (a remainder was dropped); ties go to the even mantissa
RoundToNumber(n, e, sticky) ==
    LET len == BitLength(n)
    IN IF len = 0 THEN ZeroNumber
       ELSE IF len <= MantissaBits
       THEN [m |-> ShiftLeft(n, MantissaBits - len), e |-> e - (MantissaBits - len)]
       ELSE LET s == len - MantissaBits
                q == ShiftRight(n, s)
                half == IsOdd(ShiftRight(n, s - 1))
                below == sticky \/ ShiftLeft(ShiftRight(n, s - 1), s - 1) # n
                up == half /\ (below \/ IsOdd(q))
                r == IF up THEN BigAdd(q, <<1>>) ELSE q
            IN IF BitLength(r) > MantissaBits
               THEN [m |-> ShiftRight(r, 1), e |-> e + s + 1]
               ELSE [m |-> r, e |-> e + s]

NumberFromNat(n) == RoundToNumber(BigFromNat(n), 0, FALSE)

\* x * k for a natural k
Times(x, k) == RoundToNumber(BigMulSmall(x.m, k), x.e, FALSE)

\* x + d for a natural d
Plus(x, d) ==
    IF x.m = <<>> THEN NumberFromNat(d)
    ELSE IF x.e <= 0
    THEN RoundToNumber(BigAdd(x.m, ShiftLeft(BigFromNat(d), 0 - x.e)), x.e, FALSE)
    ELSE RoundToNumber(BigAdd(ShiftLeft(x.m, x.e), BigFromNat(d)), 0, FALSE)

\* x / n for a natural n > 0
DividedBy(x, n) ==
    LET d == BigDivSmall(ShiftLeft(x.m, GuardBits), n)
    IN RoundToNumber(d.q, x.e - GuardBits, d.r # 0)

\* the number x is exactly the rational p / q
IsExactly(x, p, q) ==
    IF x.e <= 0
    THEN BigMulSmall(x.m, q) = ShiftLeft(BigFromNat(p), 0 - x.e)
    ELSE ShiftLeft(BigMulSmall(x.m, q), x.e) = BigFromNat(p)

(***************************************************************************)
(* middleware/metrics.ts: classification                                   *)
(***************************************************************************)
UpperCase ==
    <<"A", "B", "C", "D", "E", "F", "G", "H", "I", "J", "K", "L", "M", "N",
      "O", "P", "Q", "R", "S", "T", "U", "V", "W", "X", "Y", "Z">>
LowerCase ==
    <<"a", "b", "c", "d", "e", "f", "g", "h", "i", "j", "k", "l", "m", "n",
      "o", "p", "q", "r", "s", "t", "u", "v", "w", "x", "y", "z">>

\* the i flag of the patterns: letters are compared without their case
Lower(s) ==
    [i \in 1..Len(s) |->
        IF \E j \in 1..Len(UpperCase) : UpperCase[j] = s[i]
        THEN LowerCase[CHOOSE j \in 1..Len(UpperCase) : UpperCase[j] = s[i]]
        ELSE s[i]]

\* sub occurs in s, ending at or before position last
OccursBy(s, sub, last) ==
    \E i \in 1..(last - Len(sub) + 1) : SubSeq(s, i, i + Len(sub) - 1) = sub

Contains(s, sub) == OccursBy(s, sub, Len(s))

EndsWith(s, suffix) ==
    /\ Len(suffix) <= Len(s)
    /\ SubSeq(s, Len(s) - Len(suffix) + 1, Len(s)) = suffix

\* /a.*b/: a, then b anywhere after it on the same line
ContainsThen(s, a, b) ==
    \E i \in 1..(Len(s) - Len(a) + 1) :
        /\ SubSeq(s, i, i + Len(a) - 1) = a
        /\ \E j \in (i + Len(a))..(Len(s) - Len(b) + 1) :
               /\ SubSeq(s, j, j + Len(b) - 1) = b
               /\ \A k \in (i + Len(a))..(j - 1) : s[k] \notin {"\n", "\r"}

\* BOT_PATTERNS: each pattern is the set of its alternatives
BOT_PATTERNS ==
    << { <<"b", "o", "t">>,
         <<"c", "r", "a", "w", "l", "e", "r">>,
         <<"s", "p", "i", "d", "e", "r">>,
         <<"s", "c", "r", "a", "p", "e", "r">> },
       { <<"g", "o", "o", "g", "l", "e", "b", "o", "t">>,
         <<"b", "i", "n", "g", "b", "o", "t">>,
         <<"s", "l", "u", "r", "p">>,
         <<"d", "u", "c", "k", "d", "u", "c", "k", "b", "o", "t">>,
         <<"b", "a", "i", "d", "u", "s", "p", "i", "d", "e", "r">> },
       { <<"f", "a", "c", "e", "b", "o", "o", "k", "e", "x", "t", "e", "r", "n", "a", "l", "h", "i", "t">>,
         <<"t", "w", "i", "t", "t", "e", "r", "b", "o", "t">>,
         <<"l", "i", "n", "k", "e", "d", "i", "n", "b", "o", "t">> },
       { <<"s", "e", "m", "r", "u", "s", "h">>,
         <<"a", "h", "r", "e", "f", "s">>,
         <<"m", "o", "z">>,
         <<"d", "o", "t", "b", "o", "t">> } >>


\* pattern.test(s) for a pattern of literal alternatives with the i flag
TestAny(words, s) == \E w \in words : Contains(Lower(s), w)

\* a classification that looks at the user-agent first
isBot_UserAgentFirst(userAgent, ip, dev) ==
    IF userAgent = <<>> THEN TRUE
    ELSE IF isInternalRequest(ip, dev) THEN FALSE
    ELSE \E i \in 1..Len(BOT_PATTERNS) : TestAny(BOT_PATTERNS[i], userAgent)

isBot(userAgent, ip, dev) ==
    IF isInternalRequest(ip, dev) THEN FALSE
    ELSE IF userAgent = <<>> THEN TRUE
    ELSE \E i \in 1..Len(BOT_PATTERNS) : TestAny(BOT_PATTERNS[i], userAgent)

\* SUSPICIOUS_PATTERNS, in their order: the kind of the pattern (literal
\* alternatives anywhere, at the end, or one literal then another), its
\* source text and its alternatives
SUSPICIOUS_PATTERNS ==
    << [kind |-> "suffix",
        source |->
          <<"\\", ".", "(", "p", "h", "p", "|", "a", "s", "p", "|", "a", "s",
            "p", "x", "|", "j", "s", "p", "|", "c", "g", "i", "|", "p", "l",
            ")", "$">>,
        alts |-> { <<".", "p", "h", "p">>,
                 <<".", "a", "s", "p">>,
                 <<".", "a", "s", "p", "x">>,
                 <<".", "j", "s", "p">>,
                 <<".", "c", "g", "i">>,
                 <<".", "p", "l">> }],
       [kind |-> "any",
        source |->
          <<"w", "p", "-", "a", "d", "m", "i", "n", "|", "w", "p", "-", "l",
            "o", "g", "i", "n", "|", "w", "p", "-", "c", "o", "n", "t", "e",
            "n", "t", "|", "w", "o", "r", "d", "p", "r", "e", "s", "s">>,
        alts |-> { <<"w", "p", "-", "a", "d", "m", "i", "n">>,
                 <<"w", "p", "-", "l", "o", "g", "i", "n">>,
                 <<"w", "p", "-", "c", "o", "n", "t", "e", "n", "t">>,
                 <<"w", "o", "r", "d", "p", "r", "e", "s", "s">> }],
       [kind |-> "any",
        source |->
          <<"p", "h", "p", "m", "y", "a", "d", "m", "i", "n", "|", "a", "d",
            "m", "i", "n", "e", "r", "|", "p", "m", "a">>,
        alts |-> { <<"p", "h", "p", "m", "y", "a", "d", "m", "i", "n">>,
                 <<"a", "d", "m", "i", "n", "e", "r">>,
                 <<"p", "m", "a">> }],
       [kind |-> "any",
        source |->
          <<"\\", ".", "e", "n", "v", "|", "\\", ".", "g", "i", "t", "|",
            "\\", ".", "h", "t", "a", "c", "c", "e", "s", "s", "|", "\\",
            ".", "a", "w", "s">>,
        alts |-> { <<".", "e", "n", "v">>,
                 <<".", "g", "i", "t">>,
                 <<".", "h", "t", "a", "c", "c", "e", "s", "s">>,
                 <<".", "a", "w", "s">> }],
       [kind |-> "any",
        source |->
          <<"c", "o", "n", "f", "i", "g", "\\", ".", "j", "s", "o", "n", "|",
            "p", "a", "c", "k", "a", "g", "e", "\\", ".", "j", "s", "o", "n",
            "|", "c", "o", "m", "p", "o", "s", "e", "r", "\\", ".", "j", "s",
            "o", "n">>,
        alts |-> { <<"c", "o", "n", "f", "i", "g", ".", "j", "s", "o", "n">>,
                 <<"p", "a", "c", "k", "a", "g", "e", ".", "j", "s", "o", "n">>,
                 <<"c", "o", "m", "p", "o", "s", "e", "r", ".", "j", "s", "o", "n">> }],
       [kind |-> "any",
        source |->
          <<"\\", "/", "\\", ".", "\\", ".", "|", "%", "2", "e", "%", "2",
            "e", "|", "%", "2", "5", "2", "e">>,
        alts |-> { <<"/", ".", ".">>,
                 <<"%", "2", "e", "%", "2", "e">>,
                 <<"%", "2", "5", "2", "e">> }],
       [kind |-> "any",
        source |->
          <<"<", "s", "c", "r", "i", "p", "t", "|", "j", "a", "v", "a", "s",
            "c", "r", "i", "p", "t", ":", "|", "d", "a", "t", "a", ":">>,
        alts |-> { <<"<", "s", "c", "r", "i", "p", "t">>,
                 <<"j", "a", "v", "a", "s", "c", "r", "i", "p", "t", ":">>,
                 <<"d", "a", "t", "a", ":">> }],
       [kind |-> "then",
        source |->
          <<"u", "n", "i", "o", "n", ".", "*", "s", "e", "l", "e", "c", "t",
            "|", "i", "n", "s", "e", "r", "t", ".", "*", "i", "n", "t", "o",
            "|", "d", "r", "o", "p", ".", "*", "t", "a", "b", "l", "e">>,
        alts |-> { <<<<"u", "n", "i", "o", "n">>, <<"s", "e", "l", "e", "c", "t">>>>,
                 <<<<"i", "n", "s", "e", "r", "t">>, <<"i", "n", "t", "o">>>>,
                 <<<<"d", "r", "o", "p">>, <<"t", "a", "b", "l", "e">>>> }],
       [kind |-> "any",
        source |->
          <<"n", "i", "k", "t", "o", "|", "s", "q", "l", "m", "a", "p", "|",
            "n", "m", "a", "p", "|", "m", "a", "s", "s", "c", "a", "n">>,
        alts |-> { <<"n", "i", "k", "t", "o">>,
                 <<"s", "q", "l", "m", "a", "p">>,
                 <<"n", "m", "a", "p">>,
                 <<"m", "a", "s", "s", "c", "a", "n">> }],
       [kind |-> "any",
        source |->
          <<"g", "o", "b", "u", "s", "t", "e", "r", "|", "d", "i", "r", "b",
            "u", "s", "t", "e", "r", "|", "d", "i", "r", "b", "|", "f", "f",
            "u", "f">>,
        alts |-> { <<"g", "o", "b", "u", "s", "t", "e", "r">>,
                 <<"d", "i", "r", "b", "u", "s", "t", "e", "r">>,
                 <<"d", "i", "r", "b">>,
                 <<"f", "f", "u", "f">> }] >>


\* pattern.test(s)
TestPattern(p, s) ==
    LET t == Lower(s)
    IN CASE p.kind = "any" -> \E w \in p.alts : Contains(t, w)
         [] p.kind = "suffix" -> \E w \in p.alts : EndsWith(t, w)
         [] p.kind = "then" -> \E w \in p.alts : ContainsThen(t, w[1], w[2])

PathMatch == <<"p", "a", "t", "h", "_", "m", "a", "t", "c", "h", ":">>
UaMatch == <<"u", "a", "_", "m", "a", "t", "c", "h", ":">>
ReasonLength == 20      \* pattern.source.slice(0, 20)

NotSuspicious == [suspicious |-> FALSE, reason |-> <<>>]

\* a scan that tries every pattern on the path before it tries the user-agent
checkSuspicious_PathsFirst(path, userAgent) ==
    LET RECURSIVE scan(_, _)
        scan(i, onPath) ==
            IF i > Len(SUSPICIOUS_PATTERNS)
            THEN (IF onPath THEN scan(1, FALSE) ELSE NotSuspicious)
            ELSE LET p == SUSPICIOUS_PATTERNS[i]
                     fragment == Slice0(p.source, ReasonLength)
                 IN IF onPath /\ TestPattern(p, path)
                    THEN [suspicious |-> TRUE, reason |-> PathMatch \o fragment]
                    ELSE IF ~onPath /\ TestPattern(p, userAgent)
                    THEN [suspicious |-> TRUE, reason |-> UaMatch \o fragment]
                    ELSE scan(i + 1, onPath)
    IN scan(1, TRUE)

checkSuspicious(path, userAgent) ==
    LET RECURSIVE scan(_)
        scan(i) ==
            IF i > Len(SUSPICIOUS_PATTERNS) THEN NotSuspicious
            ELSE LET p == SUSPICIOUS_PATTERNS[i]
                     fragment == Slice0(p.source, ReasonLength)
                 IN IF TestPattern(p, path)
                    THEN [suspicious |-> TRUE, reason |-> PathMatch \o fragment]
                    ELSE IF TestPattern(p, userAgent)
                    THEN [suspicious |-> TRUE, reason |-> UaMatch \o fragment]
                    ELSE scan(i + 1)
    IN scan(1)

(***************************************************************************)
(* middleware/rateLimit.ts: pure parts                                     *)
(***************************************************************************)
\* a filter that also drops nothing at the very end of the window
Prune_Inclusive(ts, t0, windowMs) == SelectSeq(ts, LAMBDA t : t0 - t <= windowMs)

\* Array.prototype.filter with the predicate t => now - t < windowMs
Prune(ts, t0, windowMs) == SelectSeq(ts, LAMBDA t : t0 - t < windowMs)

\* the matching prefixes left in their order of configuration
SortLongestFirst_Unsorted(names) == names

\* Array.prototype.sort((a, b) => b.length - a.length): stable, longest first
SortLongestFirst(names) ==
    LET RECURSIVE insert(_, _, _)
        insert(x, sorted, i) ==
            IF i > Len(sorted) THEN Append(sorted, x)
            ELSE IF Len(sorted[i]) < Len(x)
                 THEN SubSeq(sorted, 1, i - 1) \o <<x>> \o SubSeq(sorted, i, Len(sorted))
                 ELSE insert(x, sorted, i + 1)
        RECURSIVE go(_, _)
        go(i, sorted) ==
            IF i > Len(names) THEN sorted
            ELSE go(i + 1, insert(names[i], sorted, 1))
    IN go(1, <<>>)

\* Object.keys(options.endpoints), in insertion order
EndpointKeys(opts) == [i \in 1..Len(opts.endpoints) |-> opts.endpoints[i].prefix]

\* options.endpoints[name]
EndpointConfig(opts, name) ==
    LET i == CHOOSE j \in 1..Len(opts.endpoints) : opts.endpoints[j].prefix = name
    IN [limit |-> opts.endpoints[i].limit, window |-> opts.endpoints[i].window]

getConfigForPath(path, opts) ==
    LET matchingPaths ==
            SortLongestFirst(SelectSeq(EndpointKeys(opts),
                                       LAMBDA prefix : StartsWith(path, prefix)))
    IN IF Len(matchingPaths) > 0
       THEN EndpointConfig(opts, matchingPaths[1])
       ELSE opts.default

defaultKeyGenerator(c, dev) ==
    LET ip == getClientIP(c, dev)
        pathPrefix == Join(Slice0(Split(c.path, "/"), KeySegments), "/")
    IN ip \o <<":">> \o pathPrefix

\* A caller-supplied generator: the key is the caller's IP alone
principalKeyGenerator(c, dev) == getClientIP(c, dev)

\* options.keyGenerator ?? defaultKeyGenerator
keyGenerator(opts, c, dev) ==
    IF opts.keyGen = "default" THEN defaultKeyGenerator(c, dev)
    ELSE principalKeyGenerator(c, dev)

\* a limiter that ignores the skip predicate
Skips_Never(opts, c) == FALSE

\* options.skip?.(c)
Skips(opts, c) == c.path \in opts.skip

\* a comparison that lets one request too many through
OverLimit_OffByOne(count, limit) == count > limit

\* entry.timestamps.length >= config.limit
OverLimit(count, limit) == count >= limit

\* Math.min(...timestamps); Infinity for no arguments
Finite(n) == [kind |-> "finite", v |-> n]
Infinity == [kind |-> "infinity", v |-> 0]
MathMin(ts) ==
    IF ts = <<>> THEN Infinity
    ELSE Finite(CHOOSE m \in {ts[i] : i \in 1..Len(ts)} :
                    \A i \in 1..Len(ts) : m <= ts[i])

\* Math.ceil(x / d) for integers x and d > 0
Ceil(x, d) == IF x % d = 0 THEN x \div d ELSE (x \div d) + 1

\* Math.ceil((oldestInWindow + windowMs - now) / 1000)
ResetIn(ts, windowMs, t0) ==
    LET oldestInWindow == MathMin(ts)
    IN IF oldestInWindow.kind = "infinity" THEN Infinity
       ELSE Finite(Ceil(oldestInWindow.v + windowMs - t0, MsPerSecond))

\* a deny path that records the denied attempt
DeniedTimestamps_Recorded(pruned, t0) == Append(pruned, t0)

\* entry.timestamps on the deny path: the filtered array, nothing pushed
DeniedTimestamps(pruned, t0) == pruned

\* entry.timestamps.push(now)
Record(pruned, t0) == Append(pruned, t0)

\* JSON.stringify of a number: Infinity is serialised as null
JsonNull == [kind |-> "null", v |-> 0]
JsonNumber(x) == IF x.kind = "infinity" THEN JsonNull ELSE x

\* headers, status and body written by the limiter; <<>> is "not set".
\* Header values are the decimal strings of the numbers (toString); they are
\* kept as the numbers they denote.
NoResponse ==
    [status |-> Pending, limit |-> <<>>, remaining |-> <<>>, reset |-> <<>>,
     retryAfter |-> <<>>, bodyRetryAfter |-> <<>>, nextCalled |-> FALSE]

DenyResponse(config, resetIn) ==
    [status |-> TooManyRequests, limit |-> <<config.limit>>, remaining |-> <<0>>,
     reset |-> <<resetIn>>, retryAfter |-> <<resetIn>>,
     bodyRetryAfter |-> <<JsonNumber(resetIn)>>, nextCalled |-> FALSE]

AdmitResponse(config, count) ==
    [status |-> Pending, limit |-> <<config.limit>>,
     remaining |-> <<config.limit - count>>, reset |-> <<>>,
     retryAfter |-> <<>>, bodyRetryAfter |-> <<>>, nextCalled |-> TRUE]

SkipResponse == [NoResponse EXCEPT !.nextCalled = TRUE]

(***************************************************************************)
(* middleware/metrics.ts: the store and its aggregates                     *)
(***************************************************************************)
IpCap == 100                \* Object.keys(stats.requestsByIP).length < 100
PathKeySegments == 4        \* metric.path.split('/').slice(0, 4)
UserAgentLength == 200      \* userAgent.slice(0, 200)

\* an object used as a map from keys to counts
EmptyMap == [k \in {} |-> 0]

\* map[key] || 0
Count(map, key) == IF key \in DOMAIN map THEN map[key] ELSE 0

\* an increment that starts from zero again: earlier increments are lost
Bump_Overwrite(map, key) ==
    [k \in DOMAIN map \cup {key} |-> IF k = key THEN 1 ELSE map[k]]

\* map[key] = (map[key] || 0) + 1
Bump(map, key) ==
    [k \in DOMAIN map \cup {key} |-> IF k = key THEN Count(map, key) + 1 ELSE map[k]]

\* a per-path map that takes no second key
BumpPath_Capped(map, key) ==
    IF DOMAIN map = {} \/ key \in DOMAIN map THEN Bump(map, key) ELSE map

\* stats.requestsByPath[pathKey] = (stats.requestsByPath[pathKey] || 0) + 1
BumpPath(map, key) == Bump(map, key)

\* The maps are object literals: a key they do not have is looked up in
\* Object.prototype. The keys of requestsByStatus are numbers and those of
\* requestsByPath begin with "/", so only requestsByIP, whose keys are header
\* values, can be asked for a member of the prototype.
Constructor == <<"c", "o", "n", "s", "t", "r", "u", "c", "t", "o", "r">>
ProtoKey == <<"_", "_", "p", "r", "o", "t", "o", "_", "_">>
ObjectPrototype ==
    { Constructor, ProtoKey, <<"t", "o", "S", "t", "r", "i", "n", "g">>,
      <<"v", "a", "l", "u", "e", "O", "f">> }

\* String(Object.prototype[key]) followed by a number of characters "1":
\* what `member + 1` is, and what it becomes by further additions of 1
MemberText(key, ones) == [member |-> key, ones |-> ones]

\* map[key] is truthy: a count that is not 0, a text, or an inherited member
Truthy(map, key) ==
    IF key \in ObjectPrototype THEN TRUE
    ELSE key \in DOMAIN map /\ map[key] # 0

\* (map[key] || 0) + 1
PlusOne(map, key) ==
    IF key \in ObjectPrototype
    THEN (IF key \in DOMAIN map THEN MemberText(key, map[key].ones + 1)
          ELSE MemberText(key, 1))
    ELSE Count(map, key) + 1

\* map[key] = (map[key] || 0) + 1 for a key that is any text; the setter of
\* __proto__ ignores a value that is no object
BumpNamed(map, key) ==
    IF key = ProtoKey THEN map
    ELSE [k \in DOMAIN map \cup {key} |-> IF k = key THEN PlusOne(map, key) ELSE map[k]]

\* a per-IP map without its cap
BumpIP_Uncapped(map, ip) == BumpNamed(map, ip)

\* if (Object.keys(stats.requestsByIP).length < 100 || stats.requestsByIP[ip])
BumpIP(map, ip) ==
    IF Cardinality(DOMAIN map) < IpCap \/ Truthy(map, ip)
    THEN BumpNamed(map, ip)
    ELSE map

\* an average of the last average and the new duration
NextAverage_Unweighted(avg, externalCount, durationMs) ==
    DividedBy(Plus(avg, durationMs), IF externalCount = 1 THEN 1 ELSE 2)

\* (stats.avgDurationMs * (externalCount - 1) + metric.durationMs) / externalCount
NextAverage(avg, externalCount, durationMs) ==
    DividedBy(Plus(Times(avg, externalCount - 1), durationMs), externalCount)

\* stats of createMetricsStore and of resetMetrics (lastUpdated, a wall-clock
\* string, is left out)
ZeroStats ==
    [totalRequests |-> 0, externalRequests |-> 0, internalRequests |-> 0,
     requestsByStatus |-> EmptyMap, requestsByPath |-> EmptyMap,
     requestsByIP |-> EmptyMap, botRequests |-> 0, suspiciousRequests |-> 0,
     avgDurationMs |-> ZeroNumber]

updateAggregatedStats(stats, metric) ==
    LET external == ~metric.isInternal
        externalCount == stats.externalRequests + (IF external THEN 1 ELSE 0)
        pathKey == Join(Slice0(Split(metric.path, "/"), PathKeySegments), "/")
    IN [totalRequests |-> stats.totalRequests + 1,
        internalRequests |-> stats.internalRequests + (IF external THEN 0 ELSE 1),
        externalRequests |-> externalCount,
        requestsByStatus |-> Bump(stats.requestsByStatus, metric.status),
        requestsByPath |-> IF external THEN BumpPath(stats.requestsByPath, pathKey)
                           ELSE stats.requestsByPath,
        requestsByIP |-> IF external THEN BumpIP(stats.requestsByIP, metric.ip)
                         ELSE stats.requestsByIP,
        botRequests |-> stats.botRequests + (IF metric.isBot THEN 1 ELSE 0),
        suspiciousRequests |->
            stats.suspiciousRequests + (IF metric.isSuspicious THEN 1 ELSE 0),
        avgDurationMs |->
            IF external
            THEN NextAverage(stats.avgDurationMs, externalCount, metric.durationMs)
            ELSE stats.avgDurationMs]

\* the metric built after `await next()` from what the handler captured
\* before it (path, user-agent, ip) and from the response (timestamp,
\* service, method and userId are carried along and never read)
BuildMetric(captured, status, durationMs, dev) ==
    LET check == checkSuspicious(captured.path, captured.ua)
    IN [path |-> captured.path, status |-> status, durationMs |-> durationMs,
        ip |-> captured.ip, userAgent |-> Slice0(captured.ua, UserAgentLength),
        isBot |-> isBot(captured.ua, captured.ip, dev),
        isInternal |-> isInternalRequest(captured.ip, dev),
        isSuspicious |-> check.suspicious, suspiciousReason |-> check.reason]

\* a ring that drops the record just pushed
Evict_Newest(ms, max) == IF Len(ms) > max THEN SubSeq(ms, 1, Len(ms) - 1) ELSE ms

\* if (store.metrics.length > store.maxMetrics) store.metrics.shift()
Evict(ms, max) == IF Len(ms) > max THEN Tail(ms) ELSE ms

\* Array.prototype.slice(start)
SliceFrom(arr, start) ==
    LET k == IF start < 0
             THEN (IF Len(arr) + start > 0 THEN Len(arr) + start ELSE 0)
             ELSE Min2(start, Len(arr))
    IN SubSeq(arr, k + 1, Len(arr))

\* a query that returns the oldest records
getRecentMetrics_Oldest(ms, limit) == Slice0(ms, limit)

\* store.metrics.slice(-limit)
getRecentMetrics(ms, limit) == SliceFrom(ms, 0 - limit)

\* store.metrics.filter(m => m.isSuspicious).slice(-limit)
getSuspiciousRequests(ms, limit) ==
    SliceFrom(SelectSeq(ms, LAMBDA m : m.isSuspicious), 0 - limit)

\* store.metrics.filter(m => m.ip === ip).slice(-limit)
getRequestsByIP(ms, ip, limit) ==
    SliceFrom(SelectSeq(ms, LAMBDA m : m.ip = ip), 0 - limit)

\* The object { ...store.stats }: the spread copies the values of the
\* properties, which for requestsByStatus, requestsByPath and requestsByIP
\* are references to the objects of store.stats. `copy` is the new object,
\* `shared` says that its three maps are still the maps of store.stats, and
\* `taken` is what the caller was given.
getAggregatedStats(st) == [held |-> TRUE, copy |-> st, taken |-> st, shared |-> TRUE]

\* what the holder of the object reads in it now
Observed(s, st) ==
    IF s.shared
    THEN [s.copy EXCEPT !.requestsByStatus = st.requestsByStatus,
                        !.requestsByPath = st.requestsByPath,
                        !.requestsByIP = st.requestsByIP]
    ELSE s.copy

\* resetMetrics gives store.stats new maps: the maps of an object that was
\* returned before stay as they are from now on
Detached(s, st) ==
    IF s.held /\ s.shared
    THEN [s EXCEPT !.copy = Observed(s, st), !.shared = FALSE]
    ELSE s

(***************************************************************************)
(* routes/metrics.ts: the numbers of the query string                      *)
(***************************************************************************)
\* a JavaScript number that is an integer or NaN
NaN == [nan |-> TRUE, v |-> 0]
Num(v) == [nan |-> FALSE, v |-> v]

DigitValue(ch) == CHOOSE d \in 0..9 : DigitChars[d + 1] = ch

\* parseInt(s, 10): white space is skipped, then a sign and the longest run
\* of digits are read; what follows is ignored; NaN if there is no digit
ParseInt(s) ==
    LET RECURSIVE skip(_)
        skip(i) == IF i <= Len(s) /\ s[i] = " " THEN skip(i + 1) ELSE i
        at == skip(1)
        signed == at <= Len(s) /\ s[at] \in {"-", "+"}
        negative == signed /\ s[at] = "-"
        from == IF signed THEN at + 1 ELSE at
        RECURSIVE read(_, _)
        read(i, acc) ==
            IF i <= Len(s) /\ s[i] \in Digits
            THEN read(i + 1, acc * 10 + DigitValue(s[i]))
            ELSE acc
    IN IF from <= Len(s) /\ s[from] \in Digits
       THEN Num(IF negative THEN 0 - read(from, 0) ELSE read(from, 0))
       ELSE NaN

\* Math.min(x, cap): NaN if x is NaN
MinOrNaN(x, cap) == IF x.nan THEN NaN ELSE Num(Min2(x.v, cap))

\* the integer that slice() makes of -x: 0 for NaN
ToInteger(x) == IF x.nan THEN 0 ELSE x.v

\* c.req.query('limit') || fallback
QueryOr(q, fallback) == IF q = <<>> THEN fallback ELSE q

RecentDefault == <<"1", "0", "0">>
RecentCeiling == 500
SuspiciousDefault == <<"5", "0">>
SuspiciousCeiling == 200
ByIpDefault == <<"5", "0">>
ByIpCeiling == 200

\* the handlers of /recent, /suspicious and /ip/:ip
RecentRoute(ms, q) ==
    getRecentMetrics(ms, ToInteger(MinOrNaN(ParseInt(QueryOr(q, RecentDefault)),
                                           RecentCeiling)))
SuspiciousRoute(ms, q) ==
    getSuspiciousRequests(ms, ToInteger(MinOrNaN(ParseInt(QueryOr(q, SuspiciousDefault)),
                                                SuspiciousCeiling)))
ByIpRoute(ms, ip, q) ==
    getRequestsByIP(ms, ip, ToInteger(MinOrNaN(ParseInt(QueryOr(q, ByIpDefault)),
                                              ByIpCeiling)))

\* a handler that counts the codes of a class, not their requests
StatusRoute_CountsCodes(st) ==
    LET byStatus == st.requestsByStatus
        class(lo, hi) == Cardinality({code \in DOMAIN byStatus : code >= lo /\ code < hi})
    IN [c2xx |-> class(200, 300), c3xx |-> class(300, 400), c4xx |-> class(400, 500),
        c5xx |-> Cardinality({code \in DOMAIN byStatus : code >= 500}),
        details |-> byStatus]

\* the handler of /status: the counts of the status codes by their class
StatusRoute(st) ==
    LET byStatus == st.requestsByStatus
        RECURSIVE sum(_)
        sum(codes) ==
            IF codes = {} THEN 0
            ELSE LET code == CHOOSE x \in codes : TRUE
                 IN byStatus[code] + sum(codes \ {code})
        class(lo, hi) == sum({code \in DOMAIN byStatus : code >= lo /\ code < hi})
    IN [c2xx |-> class(200, 300), c3xx |-> class(300, 400), c4xx |-> class(400, 500),
        c5xx |-> sum({code \in DOMAIN byStatus : code >= 500}),
        details |-> byStatus]

\* requireOwner: the request goes on to the handler
IsOwner_AnyUser(owner, user) == user # <<>>

\* !(!ownerUserId || user?.id !== ownerUserId)
IsOwner(owner, user) == ~(owner = <<>> \/ user # owner)

(***************************************************************************)
(* Inputs: requests and limiter options                                    *)
(***************************************************************************)
IpA == <<"7">>
IpB == <<"9">>
PathABC == <<"/", "a", "/", "b", "/", "c">>
PathABD == <<"/", "a", "/", "b", "/", "d">>
PathB == <<"/", "b">>
PrefixA == <<"/", "a">>

\* c.req.header(...) and c.req.path of the requests that arrive
Contexts ==
    { [cf |-> IpA, xff |-> <<>>, real |-> <<>>, path |-> PathABC],
      [cf |-> <<>>, xff |-> <<"9", ",", " ", "7">>, real |-> <<>>, path |-> PathABD],
      [cf |-> <<>>, xff |-> <<>>, real |-> <<>>, path |-> PathB] }

Policy(l, w) == [limit |-> l, window |-> w]
Endpoint(p, l, w) == [prefix |-> p, limit |-> l, window |-> w]

\* RateLimitOptions passed to rateLimiter(store, options)
OptScenario ==
    [default |-> Policy(2, 10), endpoints |-> <<>>, keyGen |-> "default", skip |-> {}]
OptOverrides ==
    [default |-> Policy(3, 1),
     endpoints |-> <<Endpoint(PrefixA, 2, 2), Endpoint(PathABC, 1, 1)>>,
     keyGen |-> "default", skip |-> {}]
OptPrincipal ==
    [default |-> Policy(3, 1),
     endpoints |-> <<Endpoint(PathABC, 1, 2), Endpoint(PrefixA, 2, 2)>>,
     keyGen |-> "principal", skip |-> {PathB}]
OptZero ==
    [default |-> Policy(0, 1), endpoints |-> <<Endpoint(PathABC, 1, 0)>>,
     keyGen |-> "default", skip |-> {}]
OptLongWindow ==
    [default |-> Policy(2, 301), endpoints |-> <<>>, keyGen |-> "default", skip |-> {}]

OptFiveMinutes ==
    [default |-> Policy(2, 300), endpoints |-> <<Endpoint(PathABC, 1, 60)>>,
     keyGen |-> "default", skip |-> {}]

OptionsSet == {OptScenario, OptOverrides, OptPrincipal, OptZero, OptLongWindow}

\* the services: their options and whether they run in development mode
Deployments ==
    { <<OptScenario, TRUE>>, <<OptOverrides, FALSE>>, <<OptPrincipal, FALSE>>,
      <<OptZero, FALSE>> }
LongRunning == { <<OptLongWindow, FALSE>> }
SharedKey == { <<OptPrincipal, FALSE>> }
Aging == { <<OptLongWindow, FALSE>>, <<OptZero, FALSE>> }
WithinRetention == { <<OptFiveMinutes, FALSE>> }

AllKeys == {keyGenerator(o, c, d) : o \in OptionsSet, c \in Contexts, d \in BOOLEAN}

(***************************************************************************)
(* State                                                                   *)
(***************************************************************************)
VARIABLES
    options,    \* the RateLimitOptions the middleware was created with
    isDev,      \* process.env.NODE_ENV !== 'production'
    store,      \* Map<string, RateLimitEntry>: key -> entry.timestamps
    now,        \* Date.now()
    nextSweep,  \* when the setInterval callback is due
    budget,     \* steps left in this behaviour, in all and of each kind
    pc,         \* per request slot: "idle", or "next" while suspended at `await next()`
    ctx,        \* per request slot: the request that is suspended there
    ev,         \* the evaluation that has just run, if any, with its response
    epoch,      \* history, per key: the admissions since the entry was created
    lastDeny,   \* history: the last denial, until its key admits a request
    admits,     \* history, if kept: the admitted requests, with client and policy
    shadow      \* if kept: the same requests on a store that is never swept

lvars == <<options, isDev, store, now, nextSweep, budget, pc, ctx, ev, epoch, lastDeny,
           admits, shadow>>

(***************************************************************************)
(* The metrics store: state                                                *)
(***************************************************************************)
VARIABLES
    maxMetrics, \* store.maxMetrics
    metrics,    \* store.metrics: the ring of the most recent records
    stats,      \* store.stats
    captured,   \* per request slot: what metricsLogger read before `await next()`
    workload,   \* the requests and responses of this behaviour, and how many
    mhist,      \* history: the records since the store was created or reset
    extSum,     \* history: the sum of the durations of the external ones
    ownerUserId, \* options.ownerUserId of createMetricsRoutes
    snap,       \* the object a caller got from getAggregatedStats and holds
    seen,       \* the last answer of a query, of a route or of a classifier
    authConfig, \* the config of createAuthMiddleware and createAuthRoutes
    jar,        \* the auth_token cookies the browser holds for this service
    session     \* history: whether /callback has set a cookie, or logout followed

\* the auth middleware and routes, and the browser that talks to them
avars == <<authConfig, jar, session>>

\* the callers of the store and what they have got from it
rvars == <<ownerUserId, snap, seen, avars>>

mvars == <<maxMetrics, metrics, stats, captured, workload, mhist, extSum, rvars>>

\* no object is held
NoSnapshot == [held |-> FALSE, copy |-> <<>>, taken |-> <<>>, shared |-> FALSE]

\* nothing has been asked
NotSeen == [op |-> "none"]

\* a cookie attribute that is not given (undefined)
NotGiven == <<>>

\* no auth_token cookie: neither a host-only one nor one with a Domain
EmptyJar == <<>>

\* a service without auth routes
NoAuth ==
    /\ authConfig = [jwtSecret |-> <<>>, cookieDomain |-> NotGiven, build |-> "none"]
    /\ jar = EmptyJar
    /\ session = [state |-> "none", cookie |-> [name |-> "auth_token", domain |-> NotGiven, path |-> "/"]]

\* a service without metrics routes, of which nothing has been asked
Unobserved ==
    /\ ownerUserId = <<>>
    /\ snap = NoSnapshot
    /\ seen = NotSeen
    /\ NoAuth

NoCapture == [path |-> <<>>, ua |-> <<>>, ip |-> <<>>, busy |-> FALSE]

\* requests: their headers, path and user-agent
UaPlain == <<"x">>
UaBot == <<"B", "o", "t">>
PathEnv == <<"/", ".", "e", "n", "v">>
MetricContexts ==
    { [cf |-> IpA, xff |-> <<>>, real |-> <<>>, path |-> PathABC, ua |-> UaPlain],
      [cf |-> IpB, xff |-> <<>>, real |-> <<>>, path |-> PathEnv, ua |-> <<>>],
      [cf |-> <<>>, xff |-> <<>>, real |-> Loopback4, path |-> PathB, ua |-> UaBot] }
ExternalPlain == {c \in MetricContexts : c.cf = IpA}
Internal == {c \in MetricContexts : c.real = Loopback4}
Scanner == {c \in MetricContexts : c.cf = IpB}

\* responses: c.res.status and Date.now() - start
Outcome(status, durationMs) == [status |-> status, durationMs |-> durationMs]
Outcomes == {Outcome(200, 100), Outcome(404, 200)}
Latencies == {Outcome(200, 100), Outcome(200, 200)}
\* a code of every class, 101 Switching Protocols among them
StatusOutcomes ==
    {Outcome(101, 100), Outcome(200, 100), Outcome(302, 100), Outcome(404, 100),
     Outcome(500, 100)}

\* the i-th of the external callers that a store has seen before the
\* behaviour starts: 10.0.0.i
Decimal(n) ==
    LET RECURSIVE go(_, _)
        go(x, acc) == IF x = 0 THEN acc
                      ELSE go(x \div 10, <<DigitChars[(x % 10) + 1]>> \o acc)
    IN IF n = 0 THEN <<"0">> ELSE go(n, <<>>)
EarlierCaller(i) == <<"1", "0", ".", "0", ".", "0", ".">> \o Decimal(i)
PathW == <<"/", "w">>
EarlierMetric(i, dev) ==
    BuildMetric([path |-> PathW, ua |-> UaPlain, ip |-> EarlierCaller(i)],
                200, 100, dev)

\* the records of n earlier callers, one each
EarlierMetrics(n, dev) == [i \in 1..n |-> EarlierMetric(i, dev)]

\* the ring and the stats after the records ms[lo..hi] have been recorded in
\* this order, one half of them after the other (the comparison has the
\* first half computed before the second is begun)
RECURSIVE RingAfter(_, _, _, _, _)
RingAfter(ring, ms, lo, hi, max) ==
    IF lo > hi THEN ring
    ELSE IF lo = hi THEN Evict(Append(ring, ms[lo]), max)
    ELSE LET mid == (lo + hi) \div 2
             half == RingAfter(ring, ms, lo, mid, max)
         IN IF half = half THEN RingAfter(half, ms, mid + 1, hi, max) ELSE ring

RECURSIVE StatsAfter(_, _, _, _)
StatsAfter(from, ms, lo, hi) ==
    IF lo > hi THEN from
    ELSE IF lo = hi THEN updateAggregatedStats(from, ms[lo])
    ELSE LET mid == (lo + hi) \div 2
             half == StatsAfter(from, ms, lo, mid)
         IN IF half = half THEN StatsAfter(half, ms, mid + 1, hi) ELSE from

RECURSIVE SumExternal(_, _, _)
SumExternal(ms, lo, hi) ==
    IF lo > hi THEN 0
    ELSE IF lo = hi THEN (IF ms[lo].isInternal THEN 0 ELSE ms[lo].durationMs)
    ELSE LET mid == (lo + hi) \div 2
         IN SumExternal(ms, lo, mid) + SumExternal(ms, mid + 1, hi)

Workload(ctxs, outcomes, begins, resets, history) ==
    [ctxs |-> ctxs, outcomes |-> outcomes, begins |-> begins, resets |-> resets,
     history |-> history]

\* createMetricsStore(max), then the records of n earlier callers
MetricsStart(max, n) ==
    /\ maxMetrics = max
    /\ metrics = RingAfter(<<>>, EarlierMetrics(n, isDev), 1, n, max)
    /\ stats = StatsAfter(ZeroStats, EarlierMetrics(n, isDev), 1, n)
    /\ captured = [r \in Reqs |-> NoCapture]
    /\ mhist = IF workload.history THEN EarlierMetrics(n, isDev) ELSE <<>>
    /\ extSum = SumExternal(EarlierMetrics(n, isDev), 1, n)

\* the service of a specification of the limiter has no metrics traffic
NoMetrics ==
    /\ workload = Workload({}, {}, 0, 0, FALSE)
    /\ MetricsStart(1, 0)
    /\ Unobserved

vars == <<lvars, mvars>>

(***************************************************************************)
(* The rate limiter: state                                                 *)
(***************************************************************************)

NoContext == [cf |-> <<>>, xff |-> <<>>, real |-> <<>>, path |-> <<>>]
NoEval ==
    [r |-> 0, skipped |-> FALSE, path |-> <<>>, key |-> <<>>,
     config |-> Policy(0, 0), at |-> 0, before |-> <<>>, pruned |-> <<>>,
     admitted |-> FALSE, open |-> FALSE, admBefore |-> 0,
     prevDeny |-> <<>>, resp |-> NoResponse]
NoEpoch == [open |-> FALSE, first |-> 0, config |-> Policy(0, 0), adm |-> 0]

\* entry.timestamps of a key; the empty array for a key that has no entry
Timestamps(st, key) == IF key \in DOMAIN st THEN st[key] ELSE <<>>

\* store.set(key, entry) / entry.timestamps = ts
Put(st, key, ts) == [k \in DOMAIN st \cup {key} |-> IF k = key THEN ts ELSE st[k]]

\* the steps a behaviour may still take: evaluations ("evals"), sub-minute
\* clock steps ("fine") and sweeps ("sweeps")
Budget(steps, evals, fine, sweeps) ==
    [steps |-> steps, evals |-> evals, fine |-> fine, sweeps |-> sweeps]
Affords(kind) == budget.steps > 0 /\ budget[kind] > 0
Spend(kind) == [budget EXCEPT !.steps = @ - 1, ![kind] = @ - 1]

\* createRateLimitStore() and rateLimiter(store, options), no request yet
Created ==
    /\ store = [k \in {} |-> <<>>]
    /\ now = 0
    /\ nextSweep = CleanupIntervalMs
    /\ pc = [r \in Reqs |-> "idle"]
    /\ ctx = [r \in Reqs |-> NoContext]
    /\ ev = NoEval
    /\ epoch = [k \in AllKeys |-> NoEpoch]
    /\ lastDeny = <<>>

\* no history of admissions is kept / one is kept
NoLog == [on |-> FALSE, log |-> <<>>]
EmptyLog == [on |-> TRUE, log |-> <<>>]

\* no second store is kept / one is kept, as new as the first
NoShadow ==
    [on |-> FALSE, store |-> [k \in {} |-> <<>>], before |-> <<>>, admitted |-> FALSE,
     resp |-> NoResponse]
NewShadow == [NoShadow EXCEPT !.on = TRUE]

Start ==
    /\ Created
    /\ admits = NoLog
    /\ shadow = NoShadow

\* one evaluation of rateLimiter on the entries st: the entry it leaves, its
\* decision and its response
Decide(st, key, config, t0) ==
    LET windowMs == config.window * MsPerSecond
        before == Timestamps(st, key)
        pruned == Prune(before, t0, windowMs)
        deny == OverLimit(Len(pruned), config.limit)
        after == IF deny THEN DeniedTimestamps(pruned, t0) ELSE Record(pruned, t0)
    IN [on |-> TRUE, store |-> Put(st, key, after), before |-> before,
        admitted |-> ~deny,
        resp |-> IF deny THEN DenyResponse(config, ResetIn(pruned, windowMs, t0))
                 ELSE AdmitResponse(config, Len(after))]

(***************************************************************************)
(* rateLimiter: the handler, called with request c, from its entry to      *)
(* `return next()`, to `return c.json(...)` or to `await next()`; this     *)
(* part has no await and runs without suspension                           *)
(***************************************************************************)
\* the epoch of a key as an evaluation finds it: a key without an entry
\* starts one with this request; it stays open while every request on the key
\* resolves to the same policy and arrives less than one window after the first
EpochAt(ep, fresh, config, t0) ==
    IF fresh
    THEN [open |-> TRUE, first |-> t0, config |-> config, adm |-> 0]
    ELSE IF /\ ep.open
            /\ ep.config = config
            /\ t0 - ep.first < config.window * MsPerSecond
         THEN ep
         ELSE NoEpoch

DenialAfter(last, key, config, t0, deny, resetIn) ==
    IF deny /\ resetIn.kind = "finite"
    THEN <<[key |-> key, config |-> config, until |-> t0 + resetIn.v * MsPerSecond]>>
    ELSE IF last # <<>> /\ last[1].key = key THEN <<>>
    ELSE last

\* the slots only name the requests in flight: a request takes the first
\* free one
FreeSlot(r) == pc[r] = "idle" /\ \A q \in Reqs : q < r => pc[q] # "idle"

Evaluate(r, c) ==
    /\ FreeSlot(r)
    /\ Affords("evals")
    /\ budget' = Spend("evals")
    /\ IF Skips(options, c)
       THEN /\ pc' = [pc EXCEPT ![r] = "next"]
            /\ ctx' = [ctx EXCEPT ![r] = c]
            /\ ev' = [NoEval EXCEPT !.r = r, !.skipped = TRUE, !.path = c.path,
                                    !.at = now, !.resp = SkipResponse]
            /\ UNCHANGED <<store, epoch, lastDeny, admits, shadow>>
       ELSE LET config == getConfigForPath(c.path, options)
                key == keyGenerator(options, c, isDev)
                windowMs == config.window * MsPerSecond
                fresh == key \notin DOMAIN store
                before == Timestamps(store, key)
                pruned == Prune(before, now, windowMs)
                deny == OverLimit(Len(pruned), config.limit)
                after == IF deny THEN DeniedTimestamps(pruned, now)
                         ELSE Record(pruned, now)
                resetIn == ResetIn(pruned, windowMs, now)
                ep == EpochAt(epoch[key], fresh, config, now)
            IN /\ store' = Put(store, key, after)
               /\ pc' = [pc EXCEPT ![r] = IF deny THEN "idle" ELSE "next"]
               /\ ctx' = [ctx EXCEPT ![r] = IF deny THEN NoContext ELSE c]
               /\ ev' = [r |-> r, skipped |-> FALSE, path |-> c.path, key |-> key,
                         config |-> config, at |-> now, before |-> before,
                         pruned |-> pruned, admitted |-> ~deny,
                         open |-> ep.open, admBefore |-> ep.adm,
                         prevDeny |-> lastDeny,
                         resp |-> IF deny THEN DenyResponse(config, resetIn)
                                  ELSE AdmitResponse(config, Len(after))]
               /\ epoch' = [epoch EXCEPT ![key] =
                               IF ep.open /\ ~deny THEN [ep EXCEPT !.adm = @ + 1]
                               ELSE ep]
               /\ lastDeny' = DenialAfter(lastDeny, key, config, now, deny, resetIn)
               /\ admits' = IF admits.on /\ ~deny
                             THEN [admits EXCEPT !.log =
                                      Append(@, [ip |-> getClientIP(c, isDev),
                                                 config |-> config, at |-> now])]
                             ELSE admits
               /\ shadow' = IF shadow.on THEN Decide(shadow.store, key, config, now)
                             ELSE shadow
    /\ UNCHANGED <<options, isDev, now, nextSweep>>
    /\ UNCHANGED mvars

\* the downstream handler completes, `await next()` returns and so does the
\* handler
NextReturns(r) ==
    /\ pc[r] = "next"
    /\ pc' = [pc EXCEPT ![r] = "idle"]
    /\ ctx' = [ctx EXCEPT ![r] = NoContext]
    /\ ev' = NoEval
    /\ UNCHANGED <<options, isDev, store, now, nextSweep, budget, epoch, lastDeny,
                   admits, shadow>>
    /\ UNCHANGED mvars

(***************************************************************************)
(* createRateLimitStore: the setInterval callback, one whole sweep         *)
(***************************************************************************)
\* a sweep that prunes the entries and deletes none
Sweep_KeepsEmpty(st, t0) == [k \in DOMAIN st |-> Prune(st[k], t0, RetentionMs)]

Sweep(st, t0) ==
    LET kept == {k \in DOMAIN st : Prune(st[k], t0, RetentionMs) # <<>>}
    IN [k \in kept |-> Prune(st[k], t0, RetentionMs)]

Cleanup ==
    /\ now = nextSweep
    /\ Affords("sweeps")
    /\ store' = Sweep(store, now)
    /\ nextSweep' = now + CleanupIntervalMs
    /\ budget' = Spend("sweeps")
    /\ ev' = NoEval
    /\ UNCHANGED <<options, isDev, now, pc, ctx, epoch, lastDeny, admits, shadow>>
    /\ UNCHANGED mvars

(***************************************************************************)
(* The clock: Date.now() advances; the timer fires when it is due          *)
(***************************************************************************)
Tick(d) ==
    /\ Affords("fine")
    /\ now + d <= nextSweep
    /\ now' = now + d
    /\ budget' = Spend("fine")
    /\ ev' = NoEval
    /\ UNCHANGED <<options, isDev, store, nextSweep, pc, ctx, epoch, lastDeny,
                   admits, shadow>>
    /\ UNCHANGED mvars

IdleUntilSweep ==
    /\ now < nextSweep
    /\ Affords("sweeps")
    /\ now' = nextSweep
    /\ ev' = NoEval
    /\ UNCHANGED <<options, isDev, store, nextSweep, budget, pc, ctx, epoch, lastDeny,
                   admits, shadow>>
    /\ UNCHANGED mvars

Next ==
    \/ \E r \in Reqs, c \in Contexts : Evaluate(r, c)
    \/ \E r \in Reqs : NextReturns(r)
    \/ Cleanup
    \/ \E d \in FineSteps : Tick(d)
    \/ IdleUntilSweep

\* services whose windows are seconds long, followed over the first minutes
Init ==
    /\ \E d \in Deployments : options = d[1] /\ isDev = d[2]
    /\ budget = Budget(MaxSteps, MaxSteps, MaxSteps, MaxSteps)
    /\ Start
    /\ NoMetrics

Spec == Init /\ [][Next]_vars

\* a service whose window is minutes long, followed past the reaper's retention
InitReaper ==
    /\ \E d \in LongRunning : options = d[1] /\ isDev = d[2]
    /\ budget = Budget(ReaperEvals + ReaperFine + ReaperSweeps,
                       ReaperEvals, ReaperFine, ReaperSweeps)
    /\ Start
    /\ NoMetrics

SpecReaper == InitReaper /\ [][Next]_vars

\* a service whose key is shared by the policies of several endpoints,
\* followed through a denial and the retry it advertises
InitRetry ==
    /\ \E d \in SharedKey : options = d[1] /\ isDev = d[2]
    /\ budget = Budget(RetryEvals + RetryFine + RetrySweeps,
                       RetryEvals, RetryFine, RetrySweeps)
    /\ Start
    /\ NoMetrics

SpecRetry == InitRetry /\ [][Next]_vars

\* a service none of whose windows exceeds the reaper's retention, followed
\* past the retention next to a store that no reaper sweeps
InitTransparent ==
    /\ \E d \in WithinRetention : options = d[1] /\ isDev = d[2]
    /\ budget = Budget(TransSteps, TransEvals, TransFine, TransSweeps)
    /\ Created
    /\ admits = NoLog
    /\ shadow = NewShadow
    /\ NoMetrics

SpecTransparent == InitTransparent /\ [][Next]_vars

\* a service with the default key generator, two of whose endpoint policies
\* fall on one key; the admissions are kept
InitShare ==
    /\ options = OptOverrides
    /\ isDev = FALSE
    /\ budget = Budget(ShareEvals + ShareFine + ShareSweeps,
                       ShareEvals, ShareFine, ShareSweeps)
    /\ Created
    /\ admits = EmptyLog
    /\ shadow = NoShadow
    /\ NoMetrics

SpecShare == InitShare /\ [][Next]_vars

\* services followed while the timer keeps firing: time passes and the
\* setInterval callback runs whenever it is due
InitSweep ==
    /\ \E d \in Aging : options = d[1] /\ isDev = d[2]
    /\ budget = Budget(SweepEvals + SweepFine + SweepSweeps,
                       SweepEvals, SweepFine, SweepSweeps)
    /\ Start
    /\ NoMetrics

SpecSweep ==
    InitSweep /\ [][Next]_vars /\ WF_vars(Cleanup) /\ WF_vars(IdleUntilSweep)

(***************************************************************************)
(* metricsLogger: the handler up to `await next()`, and from there to its  *)
(* end; resetMetrics                                                       *)
(***************************************************************************)
FreeCapture(r) ==
    ~captured[r].busy /\ \A q \in Reqs : q < r => captured[q].busy

\* start, path, method, userAgent and ip are read; then `await next()`
MBegin(r, c) ==
    /\ FreeCapture(r)
    /\ workload.begins > 0
    /\ c \in workload.ctxs
    /\ workload' = [workload EXCEPT !.begins = @ - 1]
    /\ captured' = [captured EXCEPT ![r] =
                       [path |-> c.path, ua |-> c.ua,
                        ip |-> getClientIP(c, isDev), busy |-> TRUE]]
    /\ UNCHANGED <<maxMetrics, metrics, stats, mhist, extSum, rvars>>
    /\ UNCHANGED lvars

\* the downstream handler has answered: the metric is built, pushed to the
\* ring, the ring is trimmed and the stats are updated
MComplete(r, o) ==
    /\ captured[r].busy
    /\ o \in workload.outcomes
    /\ \E metric \in {BuildMetric(captured[r], o.status, o.durationMs, isDev)} :
          /\ metrics' = Evict(Append(metrics, metric), maxMetrics)
          /\ stats' = updateAggregatedStats(stats, metric)
          /\ mhist' = IF workload.history THEN Append(mhist, metric) ELSE mhist
          /\ extSum' = extSum + (IF metric.isInternal THEN 0 ELSE metric.durationMs)
    /\ captured' = [captured EXCEPT ![r] = NoCapture]
    /\ UNCHANGED <<maxMetrics, workload, rvars>>
    /\ UNCHANGED lvars

\* a reset that reinitializes the stats and leaves the ring as it is
MReset_KeepsRing ==
    /\ workload.resets > 0
    /\ workload' = [workload EXCEPT !.resets = @ - 1]
    /\ stats' = ZeroStats
    /\ mhist' = <<>>
    /\ extSum' = 0
    /\ snap' = Detached(snap, stats)
    /\ UNCHANGED <<maxMetrics, metrics, captured, ownerUserId, seen, avars>>
    /\ UNCHANGED lvars

\* resetMetrics(store)
MReset ==
    /\ workload.resets > 0
    /\ workload' = [workload EXCEPT !.resets = @ - 1]
    /\ metrics' = <<>>
    /\ stats' = ZeroStats
    /\ mhist' = <<>>
    /\ extSum' = 0
    /\ snap' = Detached(snap, stats)
    /\ UNCHANGED <<maxMetrics, captured, ownerUserId, seen, avars>>
    /\ UNCHANGED lvars

\* a caller the store has seen before, and one whose CF-Connecting-IP header
\* is the name of a member of Object.prototype
Returning == [cf |-> EarlierCaller(1), xff |-> <<>>, real |-> <<>>, path |-> PathABC,
              ua |-> UaPlain]
Disguised == [cf |-> Constructor, xff |-> <<>>, real |-> <<>>, path |-> PathABC,
              ua |-> UaPlain]

NextMetrics ==
    \/ \E r \in Reqs, c \in MetricContexts \cup {Returning, Disguised} : MBegin(r, c)
    \/ \E r \in Reqs, o \in Outcomes \cup Latencies \cup StatusOutcomes : MComplete(r, o)
    \/ MReset

\* the limiter of a specification of the metrics store is idle
IdleLimiter ==
    /\ options = OptScenario
    /\ isDev = FALSE
    /\ budget = Budget(0, 0, 0, 0)
    /\ Start

\* new stores of every capacity
InitMetrics ==
    /\ IdleLimiter
    /\ workload = Workload(MetricContexts, Outcomes, MaxRecords, MaxResets, TRUE)
    /\ \E max \in 1..RingCap : MetricsStart(max, 0)
    /\ Unobserved

SpecMetrics == InitMetrics /\ [][NextMetrics]_vars

\* a new store of the least capacity
InitTotals ==
    /\ IdleLimiter
    /\ workload = Workload(MetricContexts, Outcomes, TotalsRecords, TotalsResets, TRUE)
    /\ MetricsStart(1, 0)
    /\ Unobserved

SpecTotals == InitTotals /\ [][NextMetrics]_vars

\* a store that is new, or has the records of IpCap - 1 callers
InitCallers ==
    /\ IdleLimiter
    /\ workload = Workload(MetricContexts, Outcomes, CallerRecords, CallerResets, FALSE)
    /\ \E n \in {0, IpCap - 1} : MetricsStart(1, n)
    /\ Unobserved

SpecCallers == InitCallers /\ [][NextMetrics]_vars

\* a new store that records many requests, most of them external
InitLatency ==
    /\ IdleLimiter
    /\ workload = Workload(ExternalPlain \cup Internal, Latencies,
                           LatencyRecords, LatencyResets, FALSE)
    /\ MetricsStart(1, 0)
    /\ Unobserved

SpecLatency == InitLatency /\ [][NextMetrics]_vars

(***************************************************************************)
(* The callers of getAggregatedStats                                       *)
(***************************************************************************)
\* a caller calls getAggregatedStats(store) and keeps what it returns
Summary ==
    /\ ~snap.held
    /\ snap' = getAggregatedStats(stats)
    /\ UNCHANGED <<maxMetrics, metrics, stats, captured, workload, mhist, extSum,
                   ownerUserId, seen, avars>>
    /\ UNCHANGED lvars

NextReads ==
    \/ NextMetrics
    \/ Summary

InitReads ==
    /\ IdleLimiter
    /\ workload = Workload(MetricContexts, Outcomes, ReadRecords, ReadResets, FALSE)
    /\ MetricsStart(1, 0)
    /\ Unobserved

SpecReads == InitReads /\ [][NextReads]_vars

\* a store that has the records of IpCap - 1 or of IpCap callers, and then
\* records requests of a caller it has seen, of callers it has not seen and
\* of an internal caller
InitCap ==
    /\ IdleLimiter
    /\ workload = Workload(ExternalPlain \cup Internal \cup {Returning, Disguised},
                           {Outcome(200, 100)}, CapRecords, CapResets, TRUE)
    /\ \E n \in {IpCap - 1, IpCap} : MetricsStart(1, n)
    /\ Unobserved

SpecCap == InitCap /\ [][NextMetrics]_vars

(***************************************************************************)
(* Vocabulary of the properties                                            *)
(***************************************************************************)
ValidPolicy(p) == p.limit > 0 /\ p.window > 0
WindowMs(p) == p.window * MsPerSecond

\* a rateLimiter evaluation has just run and was not skipped
Evaluated == ev.r # 0 /\ ~ev.skipped
Admitted == Evaluated /\ ev.admitted
Denied == Evaluated /\ ~ev.admitted

\* the positions of ts that lie inside the window w ending at t0
Live(ts, t0, w) == {i \in 1..Len(ts) : t0 - ts[i] < w}
Occurrences(ts, t) == Cardinality({i \in 1..Len(ts) : ts[i] = t})
Values(ts) == {ts[i] : i \in 1..Len(ts)}

\* ts without the entries that have left the window, order kept
RECURSIVE Survivors(_, _, _)
Survivors(ts, t0, w) ==
    IF ts = <<>> THEN <<>>
    ELSE IF t0 - Head(ts) >= w THEN Survivors(Tail(ts), t0, w)
    ELSE <<Head(ts)>> \o Survivors(Tail(ts), t0, w)

(***************************************************************************)
(* C1: after every evaluation (under options all of whose policies have a  *)
(* positive limit and window), the timestamps stored under the evaluated   *)
(* key that lie inside the window of the evaluated policy number at most   *)
(* that policy's limit.                                                    *)
(***************************************************************************)
PoliciesOf(opts) ==
    {opts.default} \cup
    {Policy(opts.endpoints[i].limit, opts.endpoints[i].window) :
        i \in 1..Len(opts.endpoints)}

C1_CountWithinLimit ==
    (Evaluated /\ \A p \in PoliciesOf(options) : ValidPolicy(p)) =>
        Cardinality(Live(Timestamps(store, ev.key), ev.at, WindowMs(ev.config)))
            <= ev.config.limit

(***************************************************************************)
(* C2: check-and-increment is atomic across the requests in flight. Every  *)
(* evaluation decides on the store as the requests admitted before it left *)
(* it (it admits exactly when fewer than limit timestamps are inside the   *)
(* window), it stores the timestamp of an admitted request exactly once    *)
(* and drops only expired ones, it touches no other key, and a handler     *)
(* that resumes after `await next()` writes nothing.                       *)
(***************************************************************************)
C2_EvaluationStep ==
    (budget'.evals # budget.evals /\ ~ev'.skipped) =>
        LET k == ev'.key
            w == WindowMs(ev'.config)
            old == Timestamps(store, k)
            new == Timestamps(store', k)
            room == Cardinality(Live(old, now, w)) < ev'.config.limit
        IN /\ ev'.admitted = room
           /\ pc'[ev'.r] = IF room THEN "next" ELSE "idle"
           /\ \A t \in Values(old) \cup Values(new) \cup {now} :
                  Occurrences(new, t) =
                      (IF now - t < w THEN Occurrences(old, t) ELSE 0)
                      + (IF t = now /\ room THEN 1 ELSE 0)
           /\ DOMAIN store' = DOMAIN store \cup {k}
           /\ \A k2 \in DOMAIN store \ {k} : store'[k2] = store[k2]

C2_ResumeStep ==
    (\E r \in Reqs : pc[r] = "next" /\ pc'[r] = "idle") => store' = store

C2_AtomicCheckAndIncrement == [][C2_EvaluationStep /\ C2_ResumeStep]_vars

\* two requests on one key are in flight together: the first took the last
\* slot in this very millisecond and is suspended at `await next()`, the
\* second has just been denied
C2_Witness ==
    /\ Denied
    /\ Len(ev.pruned) = ev.config.limit
    /\ Occurrences(ev.pruned, ev.at) >= 1
    /\ \E q \in Reqs :
           /\ pc[q] = "next"
           /\ ~Skips(options, ctx[q])
           /\ keyGenerator(options, ctx[q], isDev) = ev.key
           /\ getConfigForPath(ctx[q].path, options) = ev.config

(***************************************************************************)
(* C3: on a key that had no entry, while every request on it resolves to   *)
(* the same policy (limit L > 0, window W > 0) and arrives less than W     *)
(* seconds after the first, a request is admitted exactly if fewer than L  *)
(* were admitted before it, and a denial reports 0 < resetAfterSeconds     *)
(* <= W.                                                                   *)
(***************************************************************************)
C3_FirstLAdmitted ==
    (Evaluated /\ ev.open /\ ValidPolicy(ev.config)) =>
        /\ ev.admitted = (ev.admBefore < ev.config.limit)
        /\ ~ev.admitted =>
               \E n \in 1..ev.config.window : ev.resp.retryAfter = <<Finite(n)>>

(***************************************************************************)
(* C4: a denied request is not recorded: after a denial the key holds the  *)
(* timestamps it held before, less the expired ones, in the same order.    *)
(***************************************************************************)
C4_DeniedNotRecorded ==
    Denied =>
        /\ ev.key \in DOMAIN store
        /\ store[ev.key] = Survivors(ev.before, ev.at, WindowMs(ev.config))

\* a denial that found both expired and live timestamps under the key
C4_Witness ==
    /\ Denied
    /\ ev.pruned # <<>>
    /\ Len(ev.pruned) < Len(ev.before)

(***************************************************************************)
(* C5: every evaluation that is not skipped sets the limit, remaining and  *)
(* reset metadata; on admit remaining is limit minus the count after the   *)
(* request was recorded.                                                   *)
(***************************************************************************)
C5_AllMetadataSet ==
    Evaluated =>
        /\ ev.resp.limit = <<ev.config.limit>>
        /\ ev.resp.remaining # <<>>
        /\ ev.resp.reset # <<>>
        /\ ev.admitted =>
               ev.resp.remaining =
                   <<ev.config.limit - Len(Timestamps(store, ev.key))>>

(***************************************************************************)
(* C6: every denial answers 429 without calling the downstream handler,    *)
(* with remaining 0, and Retry-After, X-RateLimit-Reset and the body's     *)
(* retryAfter all equal to ceil((oldest surviving timestamp + window -     *)
(* now) / 1000): the least n with n * 1000 >= oldest + window - now.       *)
(***************************************************************************)
C6_DenyResponse ==
    Denied =>
        /\ ev.resp.status = TooManyRequests
        /\ ~ev.resp.nextCalled
        /\ pc[ev.r] = "idle"
        /\ ev.resp.remaining = <<0>>
        /\ \E i \in 1..Len(ev.pruned) :
               LET oldest == ev.pruned[i]
                   ms == oldest + WindowMs(ev.config) - ev.at
               IN /\ \A j \in 1..Len(ev.pruned) : oldest <= ev.pruned[j]
                  /\ \E n \in 0..ev.config.window :
                         /\ n * MsPerSecond >= ms
                         /\ (n - 1) * MsPerSecond < ms
                         /\ ev.resp.retryAfter = <<Finite(n)>>
                         /\ ev.resp.reset = <<Finite(n)>>
                         /\ ev.resp.bodyRetryAfter = <<Finite(n)>>

(***************************************************************************)
(* C7: a request that follows a denial on the same key and policy, at or   *)
(* after the denial's time plus its resetAfterSeconds, with no admission   *)
(* on the key in between, is admitted (under options all of whose policies *)
(* have a positive limit and window).                                      *)
(***************************************************************************)
C7_RetryAfterSufficient ==
    ( /\ Evaluated
      /\ \A p \in PoliciesOf(options) : ValidPolicy(p)
      /\ ev.prevDeny # <<>>
      /\ ev.prevDeny[1].key = ev.key
      /\ ev.prevDeny[1].config = ev.config
      /\ ev.at >= ev.prevDeny[1].until ) => ev.admitted

(***************************************************************************)
(* C8: the policy of a request is that of the longest configured prefix    *)
(* its path starts with, whatever the order of configuration, and the      *)
(* default policy when no prefix matches.                                  *)
(***************************************************************************)
MatchingEndpoints(path, opts) ==
    {e \in {opts.endpoints[i] : i \in 1..Len(opts.endpoints)} :
        StartsWith(path, e.prefix)}

C8_LongestPrefix ==
    Evaluated =>
        LET M == MatchingEndpoints(ev.path, options)
        IN IF M = {} THEN ev.config = options.default
           ELSE \E e \in M :
                    /\ \A f \in M : Len(f.prefix) <= Len(e.prefix)
                    /\ ev.config = Policy(e.limit, e.window)

\* a path with two matching prefixes, the shorter one configured first
C8_Witness ==
    /\ Evaluated
    /\ \E e, f \in MatchingEndpoints(ev.path, options) :
           /\ Len(e.prefix) < Len(f.prefix)
           /\ options.endpoints[1] = e
           /\ ev.config = Policy(f.limit, f.window)
           /\ ev.config # Policy(e.limit, e.window)

(***************************************************************************)
(* C9: no request is evaluated against a policy whose limit or window is   *)
(* not positive (such options are refused at construction).                *)
(***************************************************************************)
C9_OnlyValidPolicies == Evaluated => ValidPolicy(ev.config)

(***************************************************************************)
(* C10: the reaper never deletes a timestamp that is still inside the      *)
(* window of a policy of the options in use (no policy's window exceeds    *)
(* the retention).                                                         *)
(***************************************************************************)
C10_SweepStep ==
    (budget'.sweeps # budget.sweeps) =>
        \A k \in DOMAIN store : \A t \in Values(store[k]) :
            Occurrences(Timestamps(store', k), t) < Occurrences(store[k], t) =>
                \A p \in PoliciesOf(options) : now - t >= WindowMs(p)

C10_ReaperKeepsLiveTimestamps == [][C10_SweepStep]_vars

(***************************************************************************)
(* C11: with the default key generator, two requests of one caller IP have *)
(* the same key exactly if their paths agree on their first three path     *)
(* segments.                                                               *)
(***************************************************************************)
\* the segments of a path: the non-empty parts between its slashes
PathSegments(path) == SelectSeq(Split(path, "/"), LAMBDA seg : seg # <<>>)

C11_KeyIsIpAndThreeSegments ==
    options.keyGen = "default" =>
        \A q1, q2 \in Reqs :
            ( /\ pc[q1] = "next" /\ pc[q2] = "next"
              /\ getClientIP(ctx[q1], isDev) = getClientIP(ctx[q2], isDev) ) =>
                ( keyGenerator(options, ctx[q1], isDev)
                      = keyGenerator(options, ctx[q2], isDev)
                  <=> Slice0(PathSegments(ctx[q1].path), 3)
                          = Slice0(PathSegments(ctx[q2].path), 3) )

(***************************************************************************)
(* C12: a request for which the skip predicate holds goes to the           *)
(* downstream handler and leaves the store as it was; neither the key      *)
(* generator nor the policy resolution runs for it.                        *)
(***************************************************************************)
C12_SkipStep ==
    \A r \in Reqs :
        (pc[r] = "idle" /\ pc'[r] = "next" /\ ctx'[r].path \in options.skip) =>
            /\ store' = store
            /\ ev'.skipped
            /\ ev'.resp.nextCalled
            /\ ev'.key = NoEval.key
            /\ ev'.config = NoEval.config

C12_SkipLeavesStore == [][C12_SkipStep]_vars

\* a request has just been skipped while the store holds windows
C12_Witness ==
    /\ ev.r # 0
    /\ ev.skipped
    /\ pc[ev.r] = "next"
    /\ ctx[ev.r].path \in options.skip
    /\ \E k \in DOMAIN store : store[k] # <<>>

(***************************************************************************)
(* C13: after every sweep the store holds no key with an empty array and   *)
(* no timestamp that is 5 minutes old or older, the sweep removes nothing  *)
(* else, and the next sweep is due one minute later; hence, while sweeps   *)
(* keep running, a key all of whose timestamps get 5 minutes old is        *)
(* eventually deleted, unless a request is admitted on it before.          *)
(***************************************************************************)
C13_SweepStep ==
    (budget'.sweeps # budget.sweeps) =>
        /\ \A k \in DOMAIN store' :
               /\ store'[k] # <<>>
               /\ \A t \in Values(store'[k]) : now - t < RetentionMs
               /\ k \in DOMAIN store
               /\ store'[k] = Survivors(store[k], now, RetentionMs)
        /\ \A k \in DOMAIN store \ DOMAIN store' :
               \A t \in Values(store[k]) : now - t >= RetentionMs
        /\ nextSweep' = now + CleanupIntervalMs

\* the time of the last sweep of the behaviour
LastSweepAt == nextSweep + (budget.sweeps - 1) * CleanupIntervalMs

\* key k is in the store and a sweep is still to run when all its timestamps
\* are 5 minutes old
Idle(k) ==
    /\ k \in DOMAIN store
    /\ budget.sweeps > 0
    /\ \A t \in Values(store[k]) : t + RetentionMs <= LastSweepAt

C13_SweepDeletesIdleKeys ==
    /\ [][C13_SweepStep]_vars
    /\ \A k \in AllKeys : Idle(k) ~> (k \notin DOMAIN store \/ ~Idle(k))

\* a sweep has just deleted a key on which a request had been admitted
C13_Witness ==
    /\ now >= RetentionMs
    /\ nextSweep = now + CleanupIntervalMs
    /\ \E k \in AllKeys : epoch[k].adm > 0 /\ k \notin DOMAIN store

(***************************************************************************)
(* C14: the reaper sweeps one key at a time: no step of the reaper, during *)
(* which no admit/deny decision can be taken, prunes or deletes more than  *)
(* one key.                                                                *)
(***************************************************************************)
C14_SweepStep ==
    (budget'.sweeps # budget.sweeps) =>
        Cardinality({k \in DOMAIN store : Timestamps(store', k) # store[k]
                                           \/ k \notin DOMAIN store'}) <= 1

C14_SweepsOneKeyAtATime == [][C14_SweepStep]_vars

(***************************************************************************)
(* C15: pruning is idempotent: the array an evaluation keeps is the prune  *)
(* of the array it found, pruning it again with the same now and window    *)
(* changes nothing, and it is exactly the timestamps with now - t <        *)
(* windowMs, in their order.                                               *)
(***************************************************************************)
C15_PruneIdempotent ==
    Evaluated =>
        LET w == WindowMs(ev.config)
            once == Prune(ev.before, ev.at, w)
        IN /\ ev.pruned = once
           /\ Prune(once, ev.at, w) = once
           /\ once = Survivors(ev.before, ev.at, w)

\* an evaluation that found a timestamp exactly one window old, and a live one
C15_Witness ==
    /\ Evaluated
    /\ \E i \in 1..Len(ev.before) : ev.at - ev.before[i] = WindowMs(ev.config)
    /\ \E i \in 1..Len(ev.before) : ev.at - ev.before[i] < WindowMs(ev.config)
    /\ Len(ev.pruned) < Len(ev.before)

(***************************************************************************)
(* C16: the ring never holds more than maxMetrics records, and it holds    *)
(* the most recent ones: a record pushed to a full ring evicts exactly the *)
(* oldest, so that after maxMetrics + 1 records recent(maxMetrics) is the  *)
(* second to the last of them.                                             *)
(***************************************************************************)
\* the last n of the records h, in their order
LastOf(h, n) == SubSeq(h, Len(h) - Min2(n, Len(h)) + 1, Len(h))

C16_RingBoundedFifo ==
    /\ Len(metrics) <= maxMetrics
    /\ metrics = LastOf(mhist, maxMetrics)
    /\ Len(mhist) = maxMetrics + 1 =>
           getRecentMetrics(metrics, maxMetrics) = SubSeq(mhist, 2, maxMetrics + 1)

\* one record more than the ring holds has been recorded, the first of them
\* unlike the second
C16_Witness ==
    /\ maxMetrics >= 2
    /\ Len(mhist) = maxMetrics + 1
    /\ mhist[1] # mhist[2]
    /\ Len(metrics) = maxMetrics

(***************************************************************************)
(* C17: for every N from 1 to maxMetrics, recent(N) is the records of the  *)
(* last N record operations since the last reset, in the order in which    *)
(* they were recorded.                                                     *)
(***************************************************************************)
C17_RecentInCallOrder ==
    \A n \in 1..maxMetrics : getRecentMetrics(metrics, n) = LastOf(mhist, n)

\* after a reset, more records than the ring holds, the last two unlike
C17_Witness ==
    /\ workload.resets < MaxResets
    /\ maxMetrics >= 2
    /\ Len(mhist) > maxMetrics
    /\ metrics[Len(metrics)] # metrics[Len(metrics) - 1]

(***************************************************************************)
(* C18: the totals, the per-status counts and the per-path counts are      *)
(* those of the records since the last reset taken in any order.           *)
(***************************************************************************)
Totals(st) ==
    [totalRequests |-> st.totalRequests, externalRequests |-> st.externalRequests,
     internalRequests |-> st.internalRequests, botRequests |-> st.botRequests,
     suspiciousRequests |-> st.suspiciousRequests,
     requestsByStatus |-> st.requestsByStatus, requestsByPath |-> st.requestsByPath]

Orders(n) ==
    {p \in [1..n -> 1..n] : \A i, j \in 1..n : p[i] = p[j] => i = j}

C18_TotalsOrderIndependent ==
    \A p \in Orders(Len(mhist)) :
        Totals(StatsAfter(ZeroStats, [i \in 1..Len(mhist) |-> mhist[p[i]]],
                          1, Len(mhist)))
            = Totals(stats)

\* an internal record and external ones of two paths and two statuses
C18_Witness ==
    \E i, j, k \in 1..Len(mhist) :
        /\ mhist[i].isInternal
        /\ ~mhist[j].isInternal /\ ~mhist[k].isInternal
        /\ mhist[j].path # mhist[k].path
        /\ mhist[j].status # mhist[k].status

(***************************************************************************)
(* C19: the per-IP breakdown never has more than 100 keys.                 *)
(***************************************************************************)
C19_PerIpCapped == Cardinality(DOMAIN stats.requestsByIP) <= IpCap

\* 100 callers are tracked and an external request of another one has just
\* been recorded
C19_Witness ==
    /\ Cardinality(DOMAIN stats.requestsByIP) = IpCap
    /\ metrics # <<>>
    /\ ~metrics[Len(metrics)].isInternal
    /\ metrics[Len(metrics)].ip \notin DOMAIN stats.requestsByIP

(***************************************************************************)
(* C20: avgDurationMs is the arithmetic mean of the durations of the       *)
(* external records since the last reset, avgDurationMs * externalRequests *)
(* being the sum of these durations; and recording an internal request     *)
(* leaves avgDurationMs unchanged.                                         *)
(***************************************************************************)
\* as far as a number can be the mean: it is the number nearest to it, or
\* its product with the count is the sum
AverageIsMean ==
    IF stats.externalRequests = 0
    THEN stats.avgDurationMs = ZeroNumber
    ELSE \/ stats.avgDurationMs
              = DividedBy(NumberFromNat(extSum), stats.externalRequests)
         \/ Times(stats.avgDurationMs, stats.externalRequests)
              = NumberFromNat(extSum)

InternalKeepsAverage ==
    stats'.internalRequests = stats.internalRequests + 1 =>
        stats'.avgDurationMs = stats.avgDurationMs

C20_AverageIsMean == []AverageIsMean /\ [][InternalKeepsAverage]_vars

(***************************************************************************)
(* C21: under every interleaving of requests through metricsLogger, when n *)
(* requests have completed since the last reset totalRequests is n, every  *)
(* counter is the number of completed requests that affect it, and the     *)
(* ring holds one record for each of them (up to its capacity); requests   *)
(* still suspended at `await next()` have contributed nothing.             *)
(***************************************************************************)
\* the number of the records h that satisfy Test
CountOf(h, Test(_)) == Cardinality({i \in 1..Len(h) : Test(h[i])})

PathKey(m) == Join(Slice0(Split(m.path, "/"), PathKeySegments), "/")

C22_ResetStep ==
    workload'.resets < workload.resets =>
        /\ metrics' = <<>>
        /\ stats' = ZeroStats
        /\ stats'.totalRequests = 0 /\ stats'.externalRequests = 0
        /\ stats'.internalRequests = 0 /\ stats'.botRequests = 0
        /\ stats'.suspiciousRequests = 0 /\ stats'.avgDurationMs = ZeroNumber
        /\ DOMAIN stats'.requestsByStatus = {} /\ DOMAIN stats'.requestsByPath = {}
        /\ DOMAIN stats'.requestsByIP = {}
        /\ captured' = captured

\* the ring and the stats hold the same records
RingMatchesStats ==
    /\ Len(metrics) = Min2(stats.totalRequests, maxMetrics)
    /\ stats.totalRequests <= maxMetrics =>
           /\ stats.externalRequests = CountOf(metrics, LAMBDA m : ~m.isInternal)
           /\ stats.suspiciousRequests = CountOf(metrics, LAMBDA m : m.isSuspicious)
           /\ \A st \in DOMAIN stats.requestsByStatus :
                  stats.requestsByStatus[st] = CountOf(metrics, LAMBDA m : m.status = st)
           /\ \A i \in 1..Len(metrics) : metrics[i].status \in DOMAIN stats.requestsByStatus

C22_ResetAtomic == []RingMatchesStats /\ [][C22_ResetStep]_vars

\* of two requests suspended together the first one completed and was then
\* erased by a reset, in the ring and in the stats, while the second one is
\* still suspended
C22_Witness ==
    /\ workload.resets < MaxResets
    /\ workload.begins = MaxRecords - 2
    /\ ~captured[1].busy /\ captured[2].busy
    /\ metrics = <<>>
    /\ stats = ZeroStats

(***************************************************************************)
(* routes/metrics.ts: the routes, and the query functions called directly  *)
(***************************************************************************)
DefaultMaxMetrics == 1000       \* createMetricsStore(maxMetrics = 1000)

\* getUser(c): nobody, the owner, somebody else
NoUser == <<>>
OwnerId == <<"o">>
StrangerId == <<"u">>
Users == {NoUser, OwnerId, StrangerId}

RouteNames == {"summary", "recent", "suspicious", "ip", "status"}
LimitRoutes == {"recent", "suspicious", "ip"}

\* the limit parameter of the query string: absent, and some texts
QueryStrings ==
    { <<>>, <<"0">>, <<"-", "1">>, <<"x">>, <<"3">>, <<"6", "0", "0">> }

\* what the handler of a route answers
Handle(route, q, ip) ==
    CASE route = "summary" -> Observed(getAggregatedStats(stats), stats)
      [] route = "recent" -> RecentRoute(metrics, q)
      [] route = "suspicious" -> SuspiciousRoute(metrics, q)
      [] route = "ip" -> ByIpRoute(metrics, ip, q)
      [] route = "status" -> StatusRoute(Observed(getAggregatedStats(stats), stats))

\* A request for a route: requireAuth runs first and answers itself or
\* calls next(); then requireOwner answers 403 or calls next(); then the
\* handler answers.
Route(route, q, ip, passed, user) ==
    /\ route \in LimitRoutes \/ q = <<>>
    /\ route = "ip" \/ ip = <<>>
    /\ passed \/ user = NoUser
    /\ seen' = [op |-> route, query |-> q, ip |-> ip, passed |-> passed, user |-> user,
                response |->
                    IF ~passed THEN [by |-> "requireAuth", status |-> 401, body |-> <<>>]
                    ELSE IF ~IsOwner(ownerUserId, user)
                    THEN [by |-> "requireOwner", status |-> 403, body |-> <<>>]
                    ELSE [by |-> "handler", status |-> 200,
                          body |-> Handle(route, q, ip)]]
    /\ UNCHANGED <<maxMetrics, metrics, stats, captured, workload, mhist, extSum,
                   ownerUserId, snap, avars>>
    /\ UNCHANGED lvars

\* a direct call of getRecentMetrics, getSuspiciousRequests or
\* getRequestsByIP with a limit
Query(fn, ip, limit) ==
    /\ fn = "getRequestsByIP" \/ ip = <<>>
    /\ seen' = [op |-> fn, ip |-> ip, limit |-> limit,
                result |->
                    CASE fn = "getRecentMetrics" -> getRecentMetrics(metrics, limit)
                      [] fn = "getSuspiciousRequests" ->
                            getSuspiciousRequests(metrics, limit)
                      [] fn = "getRequestsByIP" -> getRequestsByIP(metrics, ip, limit)]
    /\ UNCHANGED <<maxMetrics, metrics, stats, captured, workload, mhist, extSum,
                   ownerUserId, snap, avars>>
    /\ UNCHANGED lvars

QueryFunctions == {"getRecentMetrics", "getSuspiciousRequests", "getRequestsByIP"}

Routes ==
    \E route \in RouteNames, q \in QueryStrings, ip \in {<<>>, IpA, IpB},
       passed \in BOOLEAN, user \in Users : Route(route, q, ip, passed, user)

Queries ==
    \E fn \in QueryFunctions, ip \in {<<>>, IpA, IpB}, limit \in 0..QueryLimit :
       Query(fn, ip, limit)

NextRoutes ==
    \/ NextMetrics
    \/ Routes

NextQueries ==
    \/ NextMetrics
    \/ Queries

\* a service with the routes, with and without an owner; its store is new
\* or has the records of two callers
InitRoutes ==
    /\ IdleLimiter
    /\ workload = Workload(Scanner, Outcomes, RouteRecords, RouteResets, FALSE)
    /\ \E n \in {0, 2} : MetricsStart(DefaultMaxMetrics, n)
    /\ ownerUserId \in {<<>>, OwnerId}
    /\ snap = NoSnapshot
    /\ seen = NotSeen
    /\ NoAuth

SpecRoutes == InitRoutes /\ [][NextRoutes]_vars

\* a service with the routes whose handlers answer with codes of every class
InitStatus ==
    /\ IdleLimiter
    /\ workload = Workload(ExternalPlain \cup Internal, StatusOutcomes,
                           StatusRecords, StatusResets, FALSE)
    /\ \E n \in {0, 2} : MetricsStart(DefaultMaxMetrics, n)
    /\ ownerUserId = OwnerId
    /\ snap = NoSnapshot
    /\ seen = NotSeen
    /\ NoAuth

\* the clients of the routes ask for /status only
StatusRequests ==
    \E passed \in BOOLEAN, user \in Users : Route("status", <<>>, <<>>, passed, user)

NextStatus ==
    \/ NextMetrics
    \/ StatusRequests

SpecStatus == InitStatus /\ [][NextStatus]_vars

\* a new store whose query functions are called directly
InitQueries ==
    /\ IdleLimiter
    /\ workload = Workload(ExternalPlain \cup Scanner, {Outcome(200, 100)},
                           QueryRecords, QueryResets, FALSE)
    /\ MetricsStart(DefaultMaxMetrics, 0)
    /\ Unobserved

SpecQueries == InitQueries /\ [][NextQueries]_vars

\* the records of n requests of one caller for /.env, without a user-agent
ScannerMetrics(n, dev) ==
    [i \in 1..n |->
        BuildMetric([path |-> PathEnv, ua |-> <<>>, ip |-> IpB], 404, 100, dev)]

\* a service with the routes whose store of the default capacity has
\* recorded more requests than the largest ceiling of the routes
InitFlood ==
    /\ IdleLimiter
    /\ workload = Workload({}, {}, 0, 0, FALSE)
    /\ maxMetrics = DefaultMaxMetrics
    /\ metrics = RingAfter(<<>>, ScannerMetrics(RecentCeiling + 1, isDev),
                           1, RecentCeiling + 1, DefaultMaxMetrics)
    /\ stats = StatsAfter(ZeroStats, ScannerMetrics(RecentCeiling + 1, isDev),
                          1, RecentCeiling + 1)
    /\ captured = [r \in Reqs |-> NoCapture]
    /\ mhist = <<>>
    /\ extSum = SumExternal(ScannerMetrics(RecentCeiling + 1, isDev),
                            1, RecentCeiling + 1)
    /\ ownerUserId \in {<<>>, OwnerId}
    /\ snap = NoSnapshot
    /\ seen = NotSeen
    /\ NoAuth

SpecFlood == InitFlood /\ [][Routes]_vars

(***************************************************************************)
(* C24: whatever the limit parameter of the query string is (0, negative   *)
(* and non-numeric texts included), /recent answers at most 500 records,   *)
(* /suspicious at most 200 and /ip/:ip at most 200.                        *)
(***************************************************************************)
Answered(route) == seen.op = route /\ seen.response.by = "handler"

C24_RoutesCapped ==
    /\ Answered("recent") => Len(seen.response.body) <= RecentCeiling
    /\ Answered("suspicious") => Len(seen.response.body) <= SuspiciousCeiling
    /\ Answered("ip") => Len(seen.response.body) <= ByIpCeiling

(***************************************************************************)
(* C25: for every limit >= 0, getRecentMetrics, getSuspiciousRequests and  *)
(* getRequestsByIP return at most limit records: the last min(limit, m) of *)
(* the m records of the ring that match (all, the suspicious ones, those   *)
(* of the ip), in the order of the ring; and they leave the store as it    *)
(* is.                                                                     *)
(***************************************************************************)
Matching(ms, fn, ip) ==
    CASE fn = "getRecentMetrics" -> ms
      [] fn = "getSuspiciousRequests" -> SelectSeq(ms, LAMBDA m : m.isSuspicious)
      [] fn = "getRequestsByIP" -> SelectSeq(ms, LAMBDA m : m.ip = ip)

C25_QueryStep ==
    (seen' # seen /\ seen'.op \in QueryFunctions /\ seen'.limit >= 0) =>
        LET matching == Matching(metrics, seen'.op, seen'.ip)
        IN /\ Len(seen'.result) <= seen'.limit
           /\ Len(seen'.result) = Min2(seen'.limit, Len(matching))
           /\ seen'.result = LastOf(matching, seen'.limit)
           /\ <<metrics, stats, maxMetrics>>' = <<metrics, stats, maxMetrics>>

C25_LastMatching == [][C25_QueryStep]_vars

(***************************************************************************)
(* The classifiers, applied to one request                                 *)
(***************************************************************************)
\* texts of the headers that carry the caller
IpTexts ==
    { IpA, Unknown, Loopback4, Localhost, Loopback6,
      <<"1", "7", "2", ".", "1", ".", "2", ".", "3">>, <<"1", "7", "2", ".", "1", "6", ".", "0", ".", "2", "5", "5">>, <<"1", "7", "2", ".", "1", ".", "2">>, <<"1", "7", "2", ".", "a", ".", "2", ".", "3">>, <<"9", ".", "1", "7", "2", ".", "1", ".", "2", ".", "3">> }
ForwardedTexts == { <<>>, <<"9", ",", " ", "7">>, <<" ", "1", "7", "2", ".", "1", ".", "2", ".", "3", " ", ",", " ", "9", " ">>, <<"7", ",">> }

Headers(cf, xff, real) == [cf |-> cf, xff |-> xff, real |-> real]

HeaderSets ==
    {Headers(cf, <<>>, <<>>) : cf \in IpTexts}
        \cup {Headers(cf, xff, real) :
                  cf \in {<<>>, IpA}, xff \in ForwardedTexts, real \in {<<>>, IpB}}

UserAgents == { <<>>, UaPlain, <<"G", "o", "o", "g", "l", "e", "b", "o", "t", "/", "2", ".", "1">>, <<"s", "q", "l", "m", "a", "p", "/", "1", ".", "7">>, <<"W", "o", "r", "d", "P", "r", "e", "s", "s", "/", "6", ".", "0">> }
Paths == { PathABC, PathEnv, <<"/", ".", ".", "/", ".", ".", "/", "e", "t", "c", "/", "p", "a", "s", "s", "w", "d">>, <<"/", "x", ".", "P", "H", "P">>, <<"/", "w", "p", "-", "a", "d", "m", "i", "n", "/", "a", ".", "p", "h", "p">> }

\* what metricsLogger computes of a request: its ip, and the three checks
Classify(c, userAgent, path) ==
    /\ seen = NotSeen
    /\ \E ip \in {getClientIP(c, isDev)} :
          seen' = [op |-> "classify", headers |-> c, userAgent |-> userAgent,
                   path |-> path, ip |-> ip,
                   isInternal |-> isInternalRequest(ip, isDev),
                   isBot |-> isBot(userAgent, ip, isDev),
                   check |-> checkSuspicious(path, userAgent)]
    /\ UNCHANGED <<maxMetrics, metrics, stats, captured, workload, mhist, extSum,
                   ownerUserId, snap, avars>>
    /\ UNCHANGED lvars

NextClassify ==
    \E c \in HeaderSets, userAgent \in UserAgents, path \in Paths :
        Classify(c, userAgent, path)

\* a service in development or in production mode
InitClassify ==
    /\ options = OptScenario
    /\ isDev \in BOOLEAN
    /\ budget = Budget(0, 0, 0, 0)
    /\ Start
    /\ NoMetrics

SpecClassify == InitClassify /\ [][NextClassify]_vars

(***************************************************************************)
(* C23: what getAggregatedStats returned is a snapshot: no record and no   *)
(* reset that comes afterwards changes any of its fields, the per-status,  *)
(* per-path and per-IP maps included.                                      *)
(***************************************************************************)
C23_SnapshotUnchanged == snap.held => Observed(snap, stats) = snap.taken

(***************************************************************************)
(* C26: a request of an internal caller is never a bot, whatever its       *)
(* user-agent (none, or that of a bot); a request of another caller that   *)
(* has no user-agent or an empty one is always a bot.                      *)
(***************************************************************************)
Classified == seen.op = "classify"

C26_BotClassification ==
    Classified =>
        /\ seen.isInternal => ~seen.isBot
        /\ (~seen.isInternal /\ seen.userAgent = <<>>) => seen.isBot

\* an internal caller with the user-agent of a bot
C26_Witness ==
    /\ Classified
    /\ seen.isInternal
    /\ \E i \in 1..Len(BOT_PATTERNS) : TestAny(BOT_PATTERNS[i], seen.userAgent)
    /\ ~seen.isBot

(***************************************************************************)
(* C27: the lowest-indexed pattern of SUSPICIOUS_PATTERNS that matches the *)
(* path or the user-agent decides: the reason is path_match: and the start *)
(* of its source if it matches the path, ua_match: and the start of its    *)
(* source if it matches the user-agent only; if no pattern matches either, *)
(* the request is not suspicious and has no reason. /../../etc/passwd has  *)
(* a reason that begins with path_match:, the user-agent matching no       *)
(* pattern of a lower index than the first one the path matches.           *)
(***************************************************************************)
Hits(path, userAgent) ==
    {i \in 1..Len(SUSPICIOUS_PATTERNS) :
        \/ TestPattern(SUSPICIOUS_PATTERNS[i], path)
        \/ TestPattern(SUSPICIOUS_PATTERNS[i], userAgent)}

PathEtcPasswd == <<"/", ".", ".", "/", ".", ".", "/", "e", "t", "c", "/", "p", "a", "s", "s", "w", "d">>

C27_LowestPatternDecides ==
    Classified =>
        LET hits == Hits(seen.path, seen.userAgent)
            least == CHOOSE i \in hits : \A j \in hits : i <= j
            fragment == Slice0(SUSPICIOUS_PATTERNS[least].source, ReasonLength)
        IN /\ hits = {} => seen.check = [suspicious |-> FALSE, reason |-> <<>>]
           /\ hits # {} =>
                  /\ seen.check.suspicious
                  /\ seen.check.reason =
                         IF TestPattern(SUSPICIOUS_PATTERNS[least], seen.path)
                         THEN PathMatch \o fragment
                         ELSE UaMatch \o fragment
           /\ (/\ seen.path = PathEtcPasswd
               /\ \A i \in Hits(<<>>, seen.userAgent) :
                      \E j \in Hits(seen.path, <<>>) : j <= i) =>
                  /\ seen.check.suspicious
                  /\ StartsWith(seen.check.reason, PathMatch)

\* /../../etc/passwd matches a pattern, and the user-agent one of a lower index
C27_Witness ==
    /\ Classified
    /\ seen.path = PathEtcPasswd
    /\ \E i, j \in 1..Len(SUSPICIOUS_PATTERNS) :
           /\ i < j
           /\ TestPattern(SUSPICIOUS_PATTERNS[i], seen.userAgent)
           /\ TestPattern(SUSPICIOUS_PATTERNS[j], seen.path)
           /\ \A k \in 1..i : ~TestPattern(SUSPICIOUS_PATTERNS[k], seen.path)
    /\ StartsWith(seen.check.reason, UaMatch)

(***************************************************************************)
(* C28: the client IP is CF-Connecting-IP if that header is there; else    *)
(* the last comma-separated entry of X-Forwarded-For if that header is     *)
(* there; else X-Real-IP if that header is there; else the sentinel,       *)
(* 'unknown' in development and the empty string in production.            *)
(***************************************************************************)
\* the text after the last comma of s
AfterLastComma(s) ==
    LET commas == {i \in 1..Len(s) : s[i] = ","}
        last == IF commas = {} THEN 0
                ELSE CHOOSE i \in commas : \A j \in commas : j <= i
    IN SubSeq(s, last + 1, Len(s))

DockerAddress(ip) ==
    \E i, j, k \in 1..Len(ip) :
        /\ i < j /\ j < k
        /\ {n \in 1..Len(ip) : ip[n] = "."} = {i, j, k}
        /\ SubSeq(ip, 1, i - 1) = <<"1", "7", "2">>
        /\ \A n \in 1..Len(ip) : n \in {i, j, k} \/ ip[n] \in Digits
        /\ i + 1 < j /\ j + 1 < k /\ k < Len(ip)

C29_SentinelUntrusted ==
    Classified =>
        /\ (~isDev /\ seen.isInternal) =>
               \/ DockerAddress(seen.ip)
               \/ seen.ip \in {Loopback4, Localhost, Loopback6}
        /\ seen.ip = <<>> => ~seen.isInternal
        /\ (seen.ip = Unknown /\ seen.isInternal) => isDev

\* production: no header at all, and the caller is not internal
C29_Witness ==
    /\ Classified
    /\ ~isDev
    /\ seen.headers = Headers(<<>>, <<>>, <<>>)
    /\ seen.ip = <<>>
    /\ ~seen.isInternal

(***************************************************************************)
(* C30: on every route (/summary, /recent, /suspicious, /ip/:ip, /status)  *)
(* the handler answers only if requireAuth let the request through and the *)
(* id of the authenticated user is the configured ownerUserId; every other *)
(* request is answered 403 by requireOwner, or by requireAuth, with no     *)
(* metrics data; with no ownerUserId configured every request is refused.  *)
(***************************************************************************)
C30_OwnerOnly ==
    seen.op \in RouteNames =>
        /\ seen.response.by = "handler" =>
               /\ seen.passed
               /\ ownerUserId # <<>>
               /\ seen.user = ownerUserId
        /\ seen.response.by # "handler" =>
               /\ seen.response.body = <<>>
               /\ \/ seen.response.by = "requireAuth" /\ ~seen.passed
                  \/ seen.response.by = "requireOwner" /\ seen.response.status = 403
        /\ ownerUserId = <<>> => seen.response.by # "handler"

\* an authenticated user who is not the owner asks for the records of a
\* store that holds some, and is answered 403
C30_Witness ==
    /\ seen.op = "recent"
    /\ seen.passed
    /\ ownerUserId = OwnerId
    /\ seen.user = StrangerId
    /\ metrics # <<>>
    /\ seen.response.status = 403

(***************************************************************************)
(* middleware/auth.ts and routes/auth.ts                                   *)
(***************************************************************************)
HubPublicUrl == <<"h", "t", "t", "p", "s", ":", "/", "/", "h">>
FrontendUrl == <<"h", "t", "t", "p", ":", "/", "/", "f">>

\* `${hubPublicUrl}/api/auth/google`
HubLoginUrl == HubPublicUrl \o <<"/", "a", "p", "i", "/", "a", "u", "t", "h", "/", "g", "o", "o", "g", "l", "e">>

ApiPrefix == <<"/", "a", "p", "i", "/">>
ReturnToParam == <<"?", "r", "e", "t", "u", "r", "n", "T", "o", "=">>
ErrorNoToken == <<"?", "e", "r", "r", "o", "r", "=", "n", "o", "_", "t", "o", "k", "e", "n">>
ErrorInvalidToken == <<"?", "e", "r", "r", "o", "r", "=", "i", "n", "v", "a", "l", "i", "d", "_", "t", "o", "k", "e", "n">>

\* encodeURIComponent: the characters of a URL that are escaped
Escaped ==
    (":" :> <<"%", "3", "A">>) @@ ("/" :> <<"%", "2", "F">>) @@
    ("?" :> <<"%", "3", "F">>) @@ ("=" :> <<"%", "3", "D">>) @@
    ("&" :> <<"%", "2", "6">>) @@ ("%" :> <<"%", "2", "5">>) @@
    (" " :> <<"%", "2", "0">>)

encodeURIComponent(text) ==
    LET RECURSIVE go(_, _)
        go(i, acc) ==
            IF i > Len(text) THEN acc
            ELSE go(i + 1, acc \o (IF text[i] \in DOMAIN Escaped
                                   THEN Escaped[text[i]] ELSE <<text[i]>>))
    IN go(1, <<>>)

\* A value of the auth_token cookie or of the token query parameter: none,
\* the empty string, a text that is no JWT, or a JWT with the algorithm of
\* its header, the key that signed it, whether it has expired, and the id
\* of its payload.
Token(form, alg, key, expired, id) ==
    [form |-> form, alg |-> alg, key |-> key, expired |-> expired, id |-> id]

NoToken == Token("absent", "", "", FALSE, "")
Jwt(alg, key, expired) == Token("jwt", alg, key, expired, "o")

Secrets == {"k1", "k2"}

Tokens ==
    { NoToken, Token("empty", "", "", FALSE, ""), Token("text", "", "", FALSE, ""),
      Jwt("HS256", "k1", FALSE), Jwt("HS256", "k2", FALSE),
      Jwt("HS256", "k1", TRUE), Jwt("none", "", FALSE), Jwt("RS256", "k1", FALSE) }

\* !token
Falsy(token) == token.form \in {"absent", "empty"}

\* a verification that accepts the algorithm the token names
Verifies_AnyAlgorithm(token, secret) ==
    /\ token.form = "jwt"
    /\ token.alg = "none" \/ token.key = secret
    /\ ~token.expired

\* jwt.verify(token, jwtSecret, { algorithms: ['HS256'] }) does not throw
Verifies(token, secret) ==
    /\ token.form = "jwt"
    /\ token.alg = "HS256"
    /\ token.key = secret
    /\ ~token.expired

\* the payload jwt.verify returns
Payload(token) == [id |-> token.id]

\* what requireAuth answers without calling next()
Refusal(error, path) ==
    IF StartsWith(path, ApiPrefix)
    THEN [kind |-> "json", status |-> 401, error |-> error, loginUrl |-> HubLoginUrl,
          location |-> <<>>]
    ELSE [kind |-> "redirect", status |-> 302, error |-> "", loginUrl |-> <<>>,
          location |-> HubLoginUrl \o ReturnToParam
                           \o encodeURIComponent(FrontendUrl \o path)]

\* requireAuth: the token of the cookie, the path, and whether next() returns
\* or rejects when it is called
requireAuth(token, path, secret, rejects) ==
    IF Falsy(token)
    THEN [next |-> FALSE, user |-> <<>>, response |-> Refusal("Unauthorized", path)]
    ELSE IF ~Verifies(token, secret)
    THEN [next |-> FALSE, user |-> <<>>, response |-> Refusal("Invalid token", path)]
    ELSE [next |-> TRUE, user |-> Payload(token),
          response |-> IF rejects THEN Refusal("Invalid token", path)
                       ELSE [kind |-> "downstream"]]

\* the name, Domain and Path of a cookie: what a browser tells cookies apart by
CookieIdentity(domain) == [name |-> "auth_token", domain |-> domain, path |-> "/"]

\* the domain option the routes pass to setCookie and deleteCookie:
\* routes/auth.ts passes none, the compiled routes pass config.cookieDomain
DomainOption(cfg) == IF cfg.build = "js" THEN cfg.cookieDomain ELSE NotGiven

\* a deletion that names the path only
DeleteOptions_PathOnly(cfg) == CookieIdentity(NotGiven)

\* deleteCookie(c, 'auth_token', { path: '/', domain })
DeleteOptions(cfg) == CookieIdentity(DomainOption(cfg))

\* setCookie(c, 'auth_token', token, { ..., path: '/', domain })
SetOptions(cfg) == CookieIdentity(DomainOption(cfg))

\* the browser stores a cookie: it replaces the one of the same identity
Stored(j, identity, value) ==
    IF \E i \in 1..Len(j) : j[i].identity = identity
    THEN [i \in 1..Len(j) |->
             IF j[i].identity = identity THEN [j[i] EXCEPT !.value = value] ELSE j[i]]
    ELSE Append(j, [identity |-> identity, value |-> value])

\* the browser drops the cookie of an identity (Max-Age=0)
Dropped(j, identity) == SelectSeq(j, LAMBDA ck : ck.identity # identity)

\* getCookie(c, 'auth_token') of a request the browser sends
getCookie(j) == IF j = <<>> THEN NoToken ELSE j[1].value

\* a cookie is set without a look at the token
CallbackJar_Unverified(j, token, cfg) ==
    IF Falsy(token) THEN j ELSE Stored(j, SetOptions(cfg), token)

\* the cookies after GET /callback?token=...
CallbackJar(j, token, cfg) ==
    IF ~Falsy(token) /\ Verifies(token, cfg.jwtSecret)
    THEN Stored(j, SetOptions(cfg), token)
    ELSE j

\* the redirect of GET /callback
CallbackLocation(token, cfg) ==
    IF Falsy(token) THEN FrontendUrl \o ErrorNoToken
    ELSE IF Verifies(token, cfg.jwtSecret) THEN FrontendUrl
    ELSE FrontendUrl \o ErrorInvalidToken

NoSession == [state |-> "none", cookie |-> CookieIdentity(NotGiven)]

ProtectedPaths == { <<"/", "a", "p", "i", "/", "x">>, <<"/", "a", "p", "i">>, <<"/", "p">> }

\* a request, with any cookie, to a path that requireAuth guards
Protected(path, token, rejects) ==
    /\ seen' = [op |-> "requireAuth", path |-> path, token |-> token,
                result |-> requireAuth(token, path, authConfig.jwtSecret, rejects)]
    /\ UNCHANGED <<authConfig, jar, session>>

\* GET /callback with the token of the query string
Callback(token) ==
    /\ jar' = CallbackJar(jar, token, authConfig)
    /\ seen' = [op |-> "callback", token |-> token,
                location |-> CallbackLocation(token, authConfig)]
    /\ session' = IF ~Falsy(token) /\ Verifies(token, authConfig.jwtSecret)
                  THEN [state |-> "open", cookie |-> SetOptions(authConfig)]
                  ELSE session
    /\ UNCHANGED authConfig

\* GET /me of the browser
Me ==
    LET token == getCookie(jar)
        valid == ~Falsy(token) /\ Verifies(token, authConfig.jwtSecret)
    IN /\ jar' = IF Falsy(token) \/ valid THEN jar
                 ELSE Dropped(jar, DeleteOptions(authConfig))
       /\ seen' = [op |-> "me", token |-> token, authenticated |-> valid,
                   user |-> IF valid THEN Payload(token) ELSE <<>>,
                   deleted |-> IF Falsy(token) \/ valid THEN <<>>
                               ELSE <<DeleteOptions(authConfig)>>]
       /\ UNCHANGED <<authConfig, session>>

\* POST /logout of the browser
Logout ==
    /\ jar' = Dropped(jar, DeleteOptions(authConfig))
    /\ seen' = [op |-> "logout", deleted |-> <<DeleteOptions(authConfig)>>,
                success |-> TRUE]
    /\ session' = [session EXCEPT !.state = IF @ = "none" THEN @ ELSE "closed"]
    /\ UNCHANGED authConfig

\* time passes: the token of a cookie the browser holds expires
TokenExpires ==
    /\ \E i \in 1..Len(jar) :
          /\ ~jar[i].value.expired
          /\ jar' = [jar EXCEPT ![i].value.expired = TRUE]
    /\ seen' = [op |-> "expiry"]
    /\ UNCHANGED <<authConfig, session>>

NextAuth ==
    /\ \/ \E path \in ProtectedPaths, token \in Tokens, rejects \in BOOLEAN :
             Protected(path, token, rejects)
       \/ \E token \in Tokens : Callback(token)
       \/ Me
       \/ Logout
       \/ TokenExpires
    /\ UNCHANGED <<lvars, maxMetrics, metrics, stats, captured, workload, mhist,
                   extSum, ownerUserId, snap>>

CookieDomains == { NotGiven, <<".", "e", ".", "c", "o", "m">> }

\* a service with the auth middleware and routes of either build, with and
\* without a cookie domain, and a browser without a cookie
InitAuth ==
    /\ options = OptScenario
    /\ isDev \in BOOLEAN
    /\ budget = Budget(0, 0, 0, 0)
    /\ Start
    /\ workload = Workload({}, {}, 0, 0, FALSE)
    /\ MetricsStart(1, 0)
    /\ ownerUserId = <<>>
    /\ snap = NoSnapshot
    /\ seen = NotSeen
    /\ authConfig \in [jwtSecret : Secrets, cookieDomain : CookieDomains,
                       build : {"ts", "js"}]
    /\ jar = EmptyJar
    /\ session = NoSession

SpecAuth == InitAuth /\ [][NextAuth]_vars

(***************************************************************************)
(* C31: requireAuth runs the downstream handler only for a request whose   *)
(* auth_token cookie verifies under HS256 with the configured secret; with *)
(* a missing or an invalid token the handler is not run, and the response  *)
(* is 401 JSON with error and loginUrl for a path that starts with /api/,  *)
(* and a redirect to the login of the Hub with returnTo otherwise.         *)
(***************************************************************************)
\* a JWT of algorithm HS256, signed with the secret, that has not expired
SignedBy(token, secret) ==
    token \in {Token("jwt", "HS256", secret, FALSE, id) : id \in {"o"}}

C31_RequireAuth ==
    seen.op = "requireAuth" =>
        LET r == seen.result
            api == Len(seen.path) >= 5 /\ SubSeq(seen.path, 1, 5) = <<"/", "a", "p", "i", "/">>
        IN /\ r.next => SignedBy(seen.token, authConfig.jwtSecret)
           /\ ~SignedBy(seen.token, authConfig.jwtSecret) =>
                 /\ ~r.next
                 /\ api => /\ r.response.kind = "json"
                           /\ r.response.status = 401
                           /\ r.response.error \in {"Unauthorized", "Invalid token"}
                           /\ r.response.loginUrl = <<"h", "t", "t", "p", "s", ":", "/", "/", "h", "/", "a", "p", "i", "/", "a", "u", "t", "h", "/", "g", "o", "o", "g", "l", "e">>
                 /\ ~api => /\ r.response.kind = "redirect"
                            /\ StartsWith(r.response.location, <<"h", "t", "t", "p", "s", ":", "/", "/", "h", "/", "a", "p", "i", "/", "a", "u", "t", "h", "/", "g", "o", "o", "g", "l", "e", "?", "r", "e", "t", "u", "r", "n", "T", "o", "=">>)
                 /\ seen.path = <<"/", "p">> =>
                        r.response.location = <<"h", "t", "t", "p", "s", ":", "/", "/", "h", "/", "a", "p", "i", "/", "a", "u", "t", "h", "/", "g", "o", "o", "g", "l", "e", "?", "r", "e", "t", "u", "r", "n", "T", "o", "=", "h", "t", "t", "p", "%", "3", "A", "%", "2", "F", "%", "2", "F", "f", "%", "2", "F", "p">>

\* a token signed with another secret asks for a path under /api/
C31_Witness ==
    /\ seen.op = "requireAuth"
    /\ seen.token.form = "jwt"
    /\ seen.token.alg = "HS256"
    /\ seen.token.key # authConfig.jwtSecret
    /\ seen.path = <<"/", "a", "p", "i", "/", "x">>
    /\ ~seen.result.next
    /\ seen.result.response.status = 401

(***************************************************************************)
(* C32: /callback sets the auth_token cookie only for a token that has     *)
(* passed verification; with no token, and with a token that fails         *)
(* verification, no cookie is set and the redirect to the frontend has     *)
(* error=no_token and error=invalid_token respectively.                    *)
(***************************************************************************)
C32_CallbackStep ==
    seen'.op = "callback" =>
        LET token == seen'.token
            verified == SignedBy(token, authConfig.jwtSecret)
        IN /\ verified =>
                 /\ \E i \in 1..Len(jar') : jar'[i].value = token
                 /\ seen'.location = <<"h", "t", "t", "p", ":", "/", "/", "f">>
           /\ ~verified =>
                 /\ jar' = jar
                 /\ token.form \in {"absent", "empty"} => seen'.location = <<"h", "t", "t", "p", ":", "/", "/", "f", "?", "e", "r", "r", "o", "r", "=", "n", "o", "_", "t", "o", "k", "e", "n">>
                 /\ token.form \notin {"absent", "empty"} => seen'.location = <<"h", "t", "t", "p", ":", "/", "/", "f", "?", "e", "r", "r", "o", "r", "=", "i", "n", "v", "a", "l", "i", "d", "_", "t", "o", "k", "e", "n">>

C32_CookieOnlyIfVerified == [][C32_CallbackStep]_vars

\* an unsigned token (alg none) came to /callback: no cookie, invalid_token
C32_Witness ==
    /\ seen.op = "callback"
    /\ seen.token.form = "jwt"
    /\ seen.token.alg = "none"
    /\ jar = EmptyJar
    /\ seen.location = <<"h", "t", "t", "p", ":", "/", "/", "f", "?", "e", "r", "r", "o", "r", "=", "i", "n", "v", "a", "l", "i", "d", "_", "t", "o", "k", "e", "n">>

(***************************************************************************)
(* C33: the cookie that POST /logout deletes, and that GET /me deletes on  *)
(* an invalid token, has the name, the path and the domain of the cookie   *)
(* that /callback set, also when cookieDomain is configured; after logout  *)
(* the browser holds no auth_token cookie and GET /me answers              *)
(* authenticated: false, until /callback succeeds again.                   *)
(***************************************************************************)
C33_DeletionStep ==
    /\ (seen'.op \in {"logout", "me"} /\ session.state # "none") =>
           \A i \in 1..Len(seen'.deleted) : seen'.deleted[i] = session.cookie
    /\ (seen'.op = "me" /\ session.state = "closed") => ~seen'.authenticated

LoggedOut == session.state = "closed" => jar = EmptyJar

C33_LogoutClearsSession == []LoggedOut /\ [][C33_DeletionStep]_vars

\* /callback set a cookie with a Domain, logout followed, and GET /me has
\* answered authenticated: false
C33_Witness ==
    /\ seen.op = "me"
    /\ session.state = "closed"
    /\ session.cookie.domain # NotGiven
    /\ authConfig.cookieDomain # NotGiven
    /\ ~seen.authenticated

(***************************************************************************)
(* rateLimiter with the options of the README                              *)
(***************************************************************************)
AuthStar == <<"/", "a", "p", "i", "/", "a", "u", "t", "h", "/", "*">>
SearchStar == <<"/", "a", "p", "i", "/", "s", "e", "a", "r", "c", "h", "/", "*">>

\* { limit: 100, window: 60, endpoints: { '/api/auth/*': { limit: 10,
\*   window: 60 }, '/api/search/*': { limit: 30, window: 60 } } }
OptReadme ==
    [default |-> Policy(100, 60),
     endpoints |-> <<Endpoint(AuthStar, 10, 60), Endpoint(SearchStar, 30, 60)>>,
     keyGen |-> "default", skip |-> {}]

RequestPaths ==
    { <<"/", "a", "p", "i", "/", "a", "u", "t", "h", "/", "l", "o", "g", "i", "n">>, <<"/", "a", "p", "i", "/", "a", "u", "t", "h", "/">>, <<"/", "a", "p", "i", "/", "a", "u", "t", "h">>, AuthStar, AuthStar \o <<"x">>, <<"/", "a", "p", "i", "/", "s", "e", "a", "r", "c", "h", "/", "q">>, <<"/", "a", "p", "i", "/", "o", "t", "h", "e", "r">>, <<"/">>,
      PathABC, PathABD, PathB }

\* rateLimiter resolves the policy of a request
Resolve(path) ==
    /\ seen' = [op |-> "getConfigForPath", path |-> path,
                config |-> getConfigForPath(path, options)]
    /\ UNCHANGED <<lvars, maxMetrics, metrics, stats, captured, workload, mhist,
                   extSum, ownerUserId, snap, avars>>

NextResolve == \E path \in RequestPaths : Resolve(path)

InitResolve ==
    /\ options \in OptionsSet \cup {OptReadme, OptFiveMinutes}
    /\ isDev \in BOOLEAN
    /\ budget = Budget(0, 0, 0, 0)
    /\ Start
    /\ NoMetrics

SpecResolve == InitResolve /\ [][NextResolve]_vars

(***************************************************************************)
(* C34: with the endpoints of the README, whose keys have the form         *)
(* /api/auth/*, a request whose path lies under /api/auth/ (such as        *)
(* /api/auth/login) gets the policy of the /api/auth/* entry and not the   *)
(* default.                                                                *)
(***************************************************************************)
C34_ReadmeOverridesApply ==
    (/\ seen.op = "getConfigForPath"
     /\ options = OptReadme
     /\ StartsWith(seen.path, <<"/", "a", "p", "i", "/", "a", "u", "t", "h", "/">>)) =>
        seen.config = Policy(10, 60)

(***************************************************************************)
(* C35: once 100 external IPs are tracked, a record of an IP that is not   *)
(* tracked leaves the per-IP breakdown unchanged and a record of a tracked *)
(* IP adds one to the count of that IP; every IP in the breakdown has the  *)
(* number of the external records of that IP since the last reset as its   *)
(* count; totalRequests and externalRequests are exact.                    *)
(***************************************************************************)
\* the value of the breakdown for ip is a number
IsCount(ip) == ip \notin ObjectPrototype

ExactPerIp ==
    /\ stats.totalRequests = Len(mhist)
    /\ stats.externalRequests = CountOf(mhist, LAMBDA m : ~m.isInternal)
    /\ \A ip \in DOMAIN stats.requestsByIP :
           /\ IsCount(ip)
           /\ stats.requestsByIP[ip]
                  = CountOf(mhist, LAMBDA m : ~m.isInternal /\ m.ip = ip)

C35_RecordAtCap ==
    (/\ Len(mhist') = Len(mhist) + 1
     /\ ~mhist'[Len(mhist')].isInternal
     /\ Cardinality(DOMAIN stats.requestsByIP) >= IpCap) =>
        LET ip == mhist'[Len(mhist')].ip
            map == stats.requestsByIP
        IN IF ip \in DOMAIN map
           THEN /\ DOMAIN stats'.requestsByIP = DOMAIN map
                /\ \A k \in DOMAIN map :
                       IsCount(k) =>
                           stats'.requestsByIP[k] = map[k] + (IF k = ip THEN 1 ELSE 0)
           ELSE stats'.requestsByIP = map

C35_CapPolicy == []ExactPerIp /\ [][C35_RecordAtCap]_vars

(***************************************************************************)
(* C36: after any sequence of records and resets, totalRequests is         *)
(* internalRequests + externalRequests; the per-status counts sum to       *)
(* totalRequests; the per-path counts sum to externalRequests; the per-IP  *)
(* counts sum to at most externalRequests; botRequests is at most          *)
(* externalRequests; suspiciousRequests is at most totalRequests; and the  *)
(* record of an internal request changes no per-path count, no per-IP      *)
(* count and not the average latency.                                      *)
(***************************************************************************)
\* the sum of the values of a map of counts
SumOf(map) ==
    LET RECURSIVE sum(_)
        sum(keys) ==
            IF keys = {} THEN 0
            ELSE LET k == CHOOSE x \in keys : TRUE
                 IN map[k] + sum(keys \ {k})
    IN sum(DOMAIN map)

CountersConsistent ==
    /\ stats.totalRequests = stats.internalRequests + stats.externalRequests
    /\ SumOf(stats.requestsByStatus) = stats.totalRequests
    /\ SumOf(stats.requestsByPath) = stats.externalRequests
    /\ \A ip \in DOMAIN stats.requestsByIP : IsCount(ip)
    /\ SumOf(stats.requestsByIP) <= stats.externalRequests
    /\ stats.botRequests <= stats.externalRequests
    /\ stats.suspiciousRequests <= stats.totalRequests

InternalKeepsBreakdowns ==
    stats'.internalRequests = stats.internalRequests + 1 =>
        /\ stats'.requestsByPath = stats.requestsByPath
        /\ stats'.requestsByIP = stats.requestsByIP
        /\ stats'.avgDurationMs = stats.avgDurationMs

C36_CountersConsistent == []CountersConsistent /\ [][InternalKeepsBreakdowns]_vars

(***************************************************************************)
(* C37: for every policy (limit L, window W) and every client, the         *)
(* requests that resolve to the policy and are admitted within an interval *)
(* of length W number at most L, also when a path of another policy with   *)
(* a shorter window has the same key and prunes the shared timestamps.     *)
(***************************************************************************)
\* the admissions of the client and policy of the i-th one that fall into
\* the window that ends with it
AdmittedWith(log, i) ==
    {j \in 1..i : /\ log[j].ip = log[i].ip
                  /\ log[j].config = log[i].config
                  /\ log[i].at - log[j].at < WindowMs(log[i].config)}

C37_LimitPerPolicy ==
    admits.on =>
        \A i \in 1..Len(admits.log) :
            Cardinality(AdmittedWith(admits.log, i)) <= admits.log[i].config.limit

TypeOK ==
    /\ options \in OptionsSet \cup {OptReadme}
    /\ now \in Nat
    /\ \A k \in DOMAIN store : \A i \in 1..Len(store[k]) : store[k][i] <= now

(***************************************************************************)
(* C38: for policies whose window is at most 5 minutes, every evaluation   *)
(* admits or denies, and answers with the same headers and body, as the    *)
(* same evaluation on a store that received the same requests and that no  *)
(* reaper ever swept.                                                      *)
(***************************************************************************)
C38_ReaperTransparent ==
    (Evaluated /\ shadow.on) =>
        /\ getConfigForPath(ev.path, options).window * MsPerSecond <= 5 * 60 * 1000
        /\ ev.admitted = shadow.admitted
        /\ ev.resp = shadow.resp

\* an evaluation that found fewer timestamps than the unswept store holds:
\* the reaper removed them in between
C38_Witness ==
    /\ Evaluated
    /\ shadow.on
    /\ ev.before # shadow.before
    /\ ev.admitted
    /\ budget.sweeps < TransSweeps


(***************************************************************************)
(* C39: the answer of /status holds, for each of 2xx, 3xx, 4xx and 5xx,    *)
(* the sum of the counts of the codes of its class (the codes from 500 up  *)
(* for 5xx), `details` is the map of the counts by code, and the four sums *)
(* together are totalRequests less the requests whose code is below 200.   *)
(***************************************************************************)
\* the requests recorded with a code c such that lo <= c < hi
RecordedIn(lo, hi) ==
    SumOf([code \in {c \in DOMAIN stats.requestsByStatus : c >= lo /\ c < hi} |->
              stats.requestsByStatus[code]])

\* the requests recorded with a code from lo up
RecordedFrom(lo) ==
    SumOf([code \in {c \in DOMAIN stats.requestsByStatus : c >= lo} |->
              stats.requestsByStatus[code]])

StatusAnswered ==
    /\ seen' # seen
    /\ seen'.op = "status"
    /\ seen'.response.by = "handler"

BucketSum(body) == body.c2xx + body.c3xx + body.c4xx + body.c5xx

C39_StatusStep ==
    StatusAnswered =>
        LET body == seen'.response.body
        IN /\ body.c2xx = RecordedIn(200, 300)
           /\ body.c3xx = RecordedIn(300, 400)
           /\ body.c4xx = RecordedIn(400, 500)
           /\ body.c5xx = RecordedFrom(500)
           /\ body.details = stats.requestsByStatus
           /\ BucketSum(body) = stats.totalRequests - RecordedIn(0, 200)

C39_PartitionStep ==
    StatusAnswered =>
        LET body == seen'.response.body
        IN /\ body.c2xx = RecordedIn(200, 300)
           /\ body.c3xx = RecordedIn(300, 400)
           /\ body.c4xx = RecordedIn(400, 500)
           /\ body.c5xx = RecordedIn(500, 600)
           /\ body.details = stats.requestsByStatus
           /\ BucketSum(body) = stats.totalRequests

====
